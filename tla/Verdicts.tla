------------------------------ MODULE Verdicts ------------------------------
(***************************************************************************)
(* What each kind of service check (checks/*.go) makes of its service: the *)
(* verdicts its Run sends, and how it ends.                                *)
(*                                                                         *)
(* A check is a record: its kind; opts, the options that are set; items,   *)
(* the records, files, queries, commands or pages it may ask for, one of   *)
(* which is picked at random (an item is the set of what it asks).  The    *)
(* libraries and the network are external: a service goes through all that *)
(* is asked of it up to some stage, where it refuses or falls silent, or   *)
(* to the end, and shows an output.                                        *)
(***************************************************************************)
EXTENDS Naturals, Sequences

\* An output is, but for blanks, the expected text; includes it and more; only matches the
\* expected pattern; is an error message; is a list longer than the check has room for; or
\* is none of these.
Output == {"exact", "containing", "matching", "errors", "many", "other"}

\* What an item may ask for, as the fields it has say.
KindAsks(kind) ==
    CASE kind = "dns" -> {"A", "MX", "answer"}
      [] kind \in {"ftp", "smb"} -> {"hash", "regex", "malformed", "self"}
      [] kind = "irc" -> {"contains"}
      [] kind = "sql" -> {"exists", "database", "output", "contains", "regex", "malformed",
                          "self"}
      [] kind \in {"ssh", "winrm"} -> {"output", "contains", "regex", "malformed", "self"}
      [] kind = "web" -> {"status", "diff", "file", "login", "regex", "malformed", "self"}
      [] kind = "cmd" -> {"regex", "malformed", "self"}
      [] OTHER -> {}

\* What a pattern is like is said of patterns only; what is matched or contained is a text,
\* which may be empty, or for SQL the name of a database.
Sensible(kind, i) ==
    /\ i \subseteq KindAsks(kind)
    /\ {"malformed", "self"} \cap i # {} => "regex" \in i
    /\ kind \in {"sql", "ssh", "winrm"} /\ {"regex", "contains"} \cap i # {} =>
          {"output", "exists"} \cap i # {}

\* An answer on IRC is always looked at.
SensibleCheck(c) ==
    /\ \A i \in c.items : Sensible(c.kind, i)
    /\ c.kind = "irc" => c.items \subseteq {{"contains"}} /\ c.items # {}

\* The item of a check that has none to pick from.
NoItem == {"none"}

Picks(c) == IF c.items = {} THEN {NoItem} ELSE c.items

Up == [sends |-> <<"up">>, end |-> "return"]
Down == [sends |-> <<"down">>, end |-> "return"]
Hang == [sends |-> <<>>, end |-> "hang"]
Panic == [sends |-> <<>>, end |-> "panic"]

If(condition) == IF condition THEN Up ELSE Down

\* Every failure on the way is reported and ends the check; a call that is never answered
\* never ends, unless it has a deadline of its own (then it fails).
Through(stages, s, rest) ==
    IF s.at \notin stages THEN rest ELSE IF s.how = "silent" THEN Hang ELSE Down

\* Logging in: if the check names a list of credentials that is not configured, or one of
\* nobody, it goes on with no name and no password, which an open service lets in.
Enter(credentials, s, rest) ==
    IF credentials
    THEN IF s.how = "strictly" THEN Down ELSE Through({"login"}, s, rest)
    ELSE IF s.open THEN rest ELSE Through({"login"}, s, Down)

HasCreds(c) == "unknownlist" \notin c.opts
Anonymous(c) == "anonymous" \in c.opts

\* Options that are accepted and never looked at: another port of IRC, the domain of SMB,
\* and, where the check logs in all the same, that it is anonymous.
Ignored(c) ==
    \/ c.kind = "irc" /\ "otherport" \in c.opts
    \/ c.kind = "smb" /\ "domain" \in c.opts
    \/ c.kind \in {"smtp", "sql", "vnc"} /\ Anonymous(c)

\* A pattern may match its own text ("self").
Matches(i, s) ==
    s.shows = "matching" \/ ("self" \in i /\ s.shows \in {"exact", "containing"})
Includes(s) == s.shows \in {"exact", "containing"}
Equals(s) == s.shows = "exact"

-----------------------------------------------------------------------------
(* Run, for each kind *)

CmdRun(c, i, s) ==
    IF "malformed" \in i THEN Down
    ELSE Enter("keywords" \in c.opts => HasCreds(c), s,
        Through({"exec"}, s, If("regex" \in i => Matches(i, s))))

\* Only address records are looked at, and only if there is an answer to compare them with.
DnsRun(c, i, s) == Through({"ask"}, s, If({"A", "answer"} \subseteq i /\ Equals(s)))

\* Mutant: a file is compared by its hash only.
FileVerdictHash(i, s) == If("hash" \in i => Equals(s))

\* What is made of a file that was read.
FileVerdict(i, s) ==
    IF "malformed" \in i THEN Down
    ELSE If(IF "regex" \in i THEN Matches(i, s) ELSE "hash" \in i => Equals(s))

FtpRun(c, i, s) ==
    Through({"dial"}, s, Enter(Anonymous(c) \/ HasCreds(c), s,
        IF i = NoItem THEN Up ELSE Through({"retrieve", "read"}, s, FileVerdict(i, s))))

\* Encrypted connections of IMAP and LDAP, and no others, need a certificate that is trusted.
Connect(s, rest) == IF s.how = "selfsigned" THEN Down ELSE Through({"dial"}, s, rest)

\* Without encryption the port is written as "%!s(int=143)": no such address.  With more
\* mailboxes than the channel for them holds, the listing never ends.
ImapRun(c, i, s) ==
    IF "encrypted" \notin c.opts THEN Down
    ELSE Connect(s,
        IF Anonymous(c) THEN Up
        ELSE Enter(HasCreds(c), s,
            Through({"list"}, s,
                IF s.shows = "many" THEN Hang
                ELSE [sends |-> <<"up", "up">>, end |-> "return"])))

\* The server is called at the default port.  Lines are looked at only once the channel is
\* joined, and for five seconds.  A line of the kind waited for that does not match is
\* reported, and the check goes on.
IrcRun(c, i, s) ==
    IF s.how \in {"strictly", "early", "late"} THEN Down
    ELSE Through({"connect", "message"}, s,
        IF Includes(s) /\ s.how # "preceded" THEN Up
        ELSE [sends |-> <<"down", "up">>, end |-> "return"])

LdapRun(c, i, s) ==
    Connect(s,
        IF "domain" \notin c.opts THEN Down ELSE Enter(HasCreds(c), s, Up))

\* One packet is sent, whatever Count says, and waited for five seconds: the loss is none
\* or all of it, and "over" is a limit that is above all of it.
PingRun(c, i, s) ==
    LET replied == s.at # "reply" /\ s.how # "late"
    IN  Through({"send"}, s,
            If(IF "lossy" \in c.opts
               THEN "percent" \in c.opts /\ (replied \/ "over" \in c.opts)
               ELSE "count" \notin c.opts /\ replied))

RdpRun(c, i, s) == Through({"dial"}, s, Up)
TcpRun(c, i, s) == Through({"dial"}, s, Up)

\* Mutant: the check goes on after a file that cannot be opened.
SmbRunOn(c, i, s) ==
    Through({"dial"}, s, Enter(Anonymous(c) \/ HasCreds(c), s,
        IF i = NoItem THEN Up
        ELSE Through({"mount"}, s,
            IF s.at = "open" THEN [sends |-> <<"down", "up">>, end |-> "return"]
            ELSE Through({"read"}, s, FileVerdict(i, s)))))

SmbRun(c, i, s) ==
    Through({"dial"}, s, Enter(Anonymous(c) \/ HasCreds(c), s,
        IF i = NoItem THEN Up
        ELSE Through({"mount", "open", "read"}, s, FileVerdict(i, s))))

\* The verdict is sent before the deferred Close learns whether the mail was accepted.
SmtpRun(c, i, s) ==
    Through({"dial", "greet"}, s, Enter(HasCreds(c), s,
        Through({"sender", "receiver", "data", "write"}, s, Up)))

\* Mutant: the name of a database is compared with whole rows.
SqlFoundExact(i, s) == IF "regex" \in i THEN Matches(i, s) ELSE Equals(s)

\* Whether a row with the expected value is found.  The name of a database that must exist
\* is looked for in the list of all databases.
SqlFound(i, s) ==
    IF "regex" \in i THEN Matches(i, s)
    ELSE IF {"exists", "contains"} \cap i # {} THEN Includes(s) ELSE Equals(s)

\* A query is picked even if there is none; a row that is NULL cannot be read; and a
\* database's name may be compiled as a pattern, which nothing has done before.
SqlRun(c, i, s) ==
    IF i = NoItem THEN Panic
    ELSE IF "driver" \notin c.opts THEN Down
    ELSE Enter(HasCreds(c), s, Through({"query"}, s,
        IF {"exists", "output"} \cap i = {} THEN Up
        ELSE Through({"rows"}, s,
            IF s.how = "null" THEN Down
            ELSE IF {"regex", "malformed"} \subseteq i THEN Panic
            ELSE If(SqlFound(i, s)))))

\* The output is what has come after an eighth of the timeout.  Output that matches a pattern
\* is compared with the pattern itself, too; and output that is to be neither matched nor
\* contained is not looked at, only error messages are.
SshRun(c, i, s) ==
    IF "badkey" \in c.opts THEN Down
    ELSE Enter(HasCreds(c), s, Through({"session", "shell"}, s,
        CASE i = NoItem -> Up
          [] "contains" \in i -> If(Includes(s) /\ s.how # "late")
          [] "regex" \in i /\ "contains" \notin i ->
                IF "malformed" \in i THEN Panic
                ELSE If(Matches(i, s) /\ Equals(s) /\ s.how # "late")
          [] OTHER -> If(s.shows # "errors" \/ s.how = "late")))

VncRun(c, i, s) == Through({"dial"}, s, Enter(HasCreds(c), s, Up))

\* Redirections are followed.  The page is read and, if there is a pattern, matched; files
\* are not compared, and nobody logs in.
WebRun(c, i, s) ==
    IF s.how = "redirects" THEN Down
    ELSE Through({"get", "read"} \cup ({"status"} \cap i), s,
        IF "malformed" \in i THEN Down ELSE If("regex" \in i => Matches(i, s)))

\* What is made of the output of a command.
WinRMVerdict(i, s) ==
    CASE s.shows = "errors" -> Down
      [] s.shows # "errors" /\ "output" \notin i -> Up
      [] s.shows # "errors" /\ "output" \in i ->
            IF {"regex", "malformed"} \subseteq i THEN Panic
            ELSE If(IF "regex" \in i THEN Matches(i, s)
                    ELSE IF "contains" \in i THEN Includes(s) ELSE Equals(s))

\* Making the client contacts nobody; if it fails this is reported, and the check goes on
\* without a client.
WinRMRun(c, i, s) ==
    IF s.at = "create"
    THEN IF i = NoItem THEN [sends |-> <<"down", "up">>, end |-> "return"]
                       ELSE [sends |-> <<"down">>, end |-> "panic"]
    ELSE IF i = NoItem THEN Up
    ELSE Enter(HasCreds(c), s, WinRMVerdict(i, s))

\* check.Run, when it picks item i and meets service s.
Run(c, i, s) ==
    CASE c.kind = "cmd"   -> CmdRun(c, i, s)   [] c.kind = "dns"  -> DnsRun(c, i, s)
      [] c.kind = "ftp"   -> FtpRun(c, i, s)   [] c.kind = "imap" -> ImapRun(c, i, s)
      [] c.kind = "irc"   -> IrcRun(c, i, s)   [] c.kind = "ldap" -> LdapRun(c, i, s)
      [] c.kind = "ping"  -> PingRun(c, i, s)  [] c.kind = "rdp"  -> RdpRun(c, i, s)
      [] c.kind = "smb"   -> SmbRun(c, i, s)   [] c.kind = "smtp" -> SmtpRun(c, i, s)
      [] c.kind = "sql"   -> SqlRun(c, i, s)   [] c.kind = "ssh"  -> SshRun(c, i, s)
      [] c.kind = "tcp"   -> TcpRun(c, i, s)   [] c.kind = "vnc"  -> VncRun(c, i, s)
      [] c.kind = "web"   -> WebRun(c, i, s)   [] c.kind = "winrm" -> WinRMRun(c, i, s)

-----------------------------------------------------------------------------
(* What services can do, and what they should get for it *)

FileStages(i, stages) == IF i = NoItem THEN {} ELSE stages

\* The stages of the session the configuration asks for.
Stages(c, i) ==
    CASE c.kind = "cmd"  -> {"exec"} \cup IF "keywords" \in c.opts THEN {"login"} ELSE {}
      [] c.kind = "dns"  -> {"ask"}
      [] c.kind = "ftp"  -> {"dial", "login"} \cup FileStages(i, {"retrieve", "read"})
      [] c.kind = "imap" -> {"dial"} \cup IF Anonymous(c) THEN {} ELSE {"login", "list"}
      [] c.kind = "irc"  -> {"connect", "message"}
      [] c.kind = "ldap" -> {"dial", "login"}
      [] c.kind = "ping" -> {"send", "reply"}
      [] c.kind = "rdp"  -> {"dial", "session"}
      [] c.kind = "tcp"  -> {"dial"}
      [] c.kind = "smb"  -> {"dial", "login"} \cup FileStages(i, {"mount", "open", "read"})
      [] c.kind = "smtp" -> {"dial", "greet", "login", "sender", "receiver", "data", "write",
                             "accept"}
      [] c.kind = "sql"  -> {"login", "query"}
                            \cup IF {"exists", "output"} \cap i = {} THEN {} ELSE {"rows"}
      [] c.kind = "ssh"  -> {"login", "session", "shell"}
      [] c.kind = "vnc"  -> {"dial", "login"}
      [] c.kind = "web"  -> {"get", "read"} \cup ({"status", "login"} \cap i)
      [] c.kind = "winrm" -> {"create", "login"}

\* The calls that wait for ever; the others have a deadline of their own, or do not wait.
Patient(c, i) ==
    Stages(c, i) \ ({"dial", "ask", "connect", "message", "send", "reply", "list", "status",
                     "accept", "create"}
                    \cup IF c.kind \in {"imap", "ldap", "winrm"} THEN {"login"} ELSE {})

\* The outputs that make a difference.
Shown(c) ==
    CASE c.kind \in {"ssh", "winrm"} -> Output \ {"many"}
      [] c.kind = "imap" -> {"exact", "many"}
      [] c.kind \in {"cmd", "dns", "ftp", "irc", "smb", "sql", "web"} ->
            Output \ {"errors", "many"}
      [] OTHER -> {"exact"}

\* How a service may do all that is asked of it.  An option that is ignored is heeded
\* "strictly", or not at all ("otherwise"), or makes no difference.  What it shows may come
\* while the check does not listen yet ("early") or when it no longer does ("late"), or
\* after something else of its kind ("preceded", "null").  Its certificate is its own
\* ("selfsigned"), or the status asked for is one that sends the client elsewhere
\* ("redirects").
Hows(c, i) ==
    {"serves"} \cup (IF Ignored(c) THEN {"strictly", "otherwise"} ELSE {})
    \cup CASE c.kind = "irc" -> {"early", "late", "preceded"}
           [] c.kind = "ping" -> {"late"}
           [] c.kind = "ssh" -> IF i = NoItem THEN {} ELSE {"late"}
           [] c.kind = "sql" -> IF "output" \in i THEN {"null"} ELSE {}
           [] c.kind = "web" -> IF "status" \in i THEN {"redirects"} ELSE {}
           [] c.kind \in {"imap", "ldap"} ->
                 IF "encrypted" \in c.opts THEN {"selfsigned"} ELSE {}
           [] OTHER -> {}

\* What the service of a check may do.  Whether it is open makes a difference only to a
\* check without credentials.
Services(c, i) ==
    LET opens == IF HasCreds(c) THEN {FALSE} ELSE BOOLEAN
    IN  [at : Stages(c, i), how : {"refuses"}, shows : Shown(c), open : opens]
        \cup [at : Patient(c, i), how : {"silent"}, shows : Shown(c), open : opens]
        \cup [at : {"end"}, how : Hows(c, i), shows : Shown(c), open : opens]

\* The output is what the item asks for.
Asked(i, s) ==
    /\ s.shows # "errors"
    /\ "regex" \in i => Matches(i, s)
    /\ "contains" \in i => Includes(s)
    /\ {"answer", "hash", "diff", "file"} \cap i # {} => Equals(s)
    /\ {"exists", "output"} \cap i # {} /\ {"regex", "contains"} \cap i = {} => Equals(s)

\* The service does all that the configuration asks of it.
Deserves(c, i, s) == s.at = "end" /\ s.how # "otherwise" /\ Asked(i, s)
=============================================================================
