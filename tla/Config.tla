------------------------------- MODULE Config -------------------------------
(***************************************************************************)
(* What the engine makes of its configuration files: the order and the     *)
(* defaults of checks (getBoxChecks, validateChecks, config.go:93-145,     *)
(* 359-658), and checkConfig (config.go:163-357), which both main and      *)
(* Score call on the same dwConf.                                          *)
(*                                                                         *)
(* Zero, NoName or "" stands for a value that is not in the file.          *)
(***************************************************************************)
EXTENDS Integers, FiniteSets, SequencesExt, TLC

NoName == <<>>

\* sort.SliceStable
StableSort(s, Key(_)) ==
    LET Before(j, i) == \/ Key(s[j]) < Key(s[i])
                        \/ Key(s[j]) = Key(s[i]) /\ j < i
        Rank(i) == Cardinality({j \in DOMAIN s : Before(j, i)}) + 1
    IN  [k \in DOMAIN s |-> s[CHOOSE i \in DOMAIN s : Rank(i) = k]]

-----------------------------------------------------------------------------
(* Boxes and checks *)

KindOrder == <<"cmd", "dns", "ftp", "imap", "irc", "ping", "ldap", "rdp", "smb", "smtp", "sql",
               "ssh", "tcp", "vnc", "web", "winrm">>

KindRank == [kind \in ToSet(KindOrder) |-> CHOOSE n \in DOMAIN KindOrder : KindOrder[n] = kind]

\* The lists of a box are put one after the other.
getBoxChecks(b) == StableSort(b.checks, LAMBDA c : KindRank[c.kind])

\* "<box>-<display>", where the display name is the kind unless it is given.
DefaultName(b, c) ==
    IF c.name # NoName THEN c.name
    ELSE <<b.name, IF c.display = "" THEN c.kind ELSE c.display>>

\* The kinds that never log in, or do so only if credentials are configured.
NeverLogsIn(c) ==
    \/ c.kind \in {"dns", "ping", "tcp"}
    \/ c.kind \in {"cmd", "web"} /\ {"credlists", "keywords"} \cap c.opts = {}

\* A check as validateChecks puts it into CheckList.
Complete(b, c) ==
    [c EXCEPT !.name = DefaultName(b, c),
              !.opts = @ \cup {"port"} \cup IF NeverLogsIn(c) THEN {"anonymous"} ELSE {}]

\* What validateChecks refuses an item of a check for.
RefusedItem(kind, i) ==
    \/ kind = "ftp" /\ {"regex", "hash"} \subseteq i
    \/ kind = "sql" /\ "exists" \in i /\ ("output" \in i \/ "database" \notin i)
    \/ kind \in {"sql", "ssh", "winrm"} /\ {"regex", "contains"} \subseteq i
    \/ kind = "web" /\ "diff" \in i /\ "file" \notin i

\* What validateChecks refuses a check for, before it looks at patterns and after.
Unfit(c) ==
    \/ c.kind \in {"ldap", "winrm"} /\ "anonymous" \in c.opts
    \/ c.kind \in {"dns", "web"} /\ c.items = {}
    \/ c.kind = "tcp" /\ "port" \notin c.opts
    \/ c.kind = "ssh" /\ {"key", "attempts"} \subseteq c.opts

Refused(c) ==
    \/ c.kind = "ssh" /\ "anonymous" \in c.opts
    \/ \E i \in c.items : RefusedItem(c.kind, i)

\* Mutant: patterns are compiled when they are needed.
BreaksNever(c) == FALSE

\* regexp.MustCompile: a pattern that cannot be compiled ends the process.
Breaks(c) ==
    /\ c.kind \in {"sql", "ssh", "winrm"}
    /\ \E i \in c.items : {"regex", "malformed"} \subseteq i /\ "exists" \notin i

CheckVerdict(c) ==
    CASE Unfit(c) -> "error"
      [] Breaks(c) /\ ~Unfit(c) -> "panic"
      [] OTHER -> IF Refused(c) THEN "error" ELSE "ok"

\* The first objection ends validateChecks.
FirstObjection(verdicts) ==
    LET objections == {k \in DOMAIN verdicts : verdicts[k] # "ok"}
    IN  IF objections = {} THEN "ok" ELSE verdicts[Min(objections)]

\* A box must have an address, and checks that can be accepted.
BoxVerdict(b) ==
    IF b.ip = NoName THEN "error"
    ELSE LET list == getBoxChecks(b)
         IN  FirstObjection([k \in DOMAIN list |-> CheckVerdict(list[k])])

validateChecks(bs) == FirstObjection([n \in DOMAIN bs |-> BoxVerdict(bs[n])])

\* An address is <<"X" or "x", number>>: the letter that stands for the team comes first in
\* the order of strings, capitals before small letters.
Lower(ip) == IF ip = NoName THEN NoName ELSE <<"x", ip[2]>>

\* A box with its CheckList, which is made anew from the lists of the file.
CompleteBox(b) ==
    LET list == getBoxChecks(b)
    IN  [b EXCEPT !.ip = Lower(@), !.list = [k \in DOMAIN list |-> Complete(b, list[k])]]

-----------------------------------------------------------------------------
(* checkConfig *)

\* The options of checks that make a difference.
Options ==
    {"port", "anonymous", "credlists", "keywords", "unknownlist", "encrypted", "domain", "lossy",
     "percent", "over", "count", "driver", "key", "badkey", "attempts", "otherport"}

\* What the files may say, and what checkConfig adds: names of checks, teams and tokens.
ConfCheck ==
    [kind : ToSet(KindOrder), display : STRING,
     name : {NoName} \cup (STRING \X (STRING \cup ToSet(KindOrder))),
     opts : SUBSET Options, items : SUBSET SUBSET STRING]

ConfBox ==
    [name : STRING, ip : {NoName} \cup ({"X", "x"} \X Nat), checks : Seq(ConfCheck),
     list : Seq(ConfCheck), time : Int]

TeamNames == {NoName} \cup ((STRING \cup {"team"}) \X Nat)
ConfTeam == [name : TeamNames, ip : Int, token : TeamNames]

Configuration ==
    [missing : SUBSET STRING, delay : Int, jitter : Int, timeout : Int,
     creds : Seq(Seq(Int)), teams : Seq(ConfTeam), persists : BOOLEAN, boxes : Seq(ConfBox)]

IpKey(b) ==
    IF b.ip = NoName THEN -1 ELSE b.ip[2] + IF b.ip[1] = "X" THEN 0 ELSE 100

NeighboursDiffer(s) == \A i \in 1..(Len(s) - 1) : s[i] # s[i + 1]

Column(s, Field(_)) == [i \in DOMAIN s |-> Field(s[i])]

DefaultDelay == 60
DefaultJitter == 30
DefaultTimeout == 30

Given(value, default) == IF value = 0 THEN default ELSE value

WithDefaults(conf) ==
    [conf EXCEPT !.delay = Given(@, DefaultDelay), !.jitter = Given(@, DefaultJitter),
                 !.boxes = StableSort(@, IpKey)]

UsernamesDiffer(conf) == NeighboursDiffer(SortSeq(FlattenSeq(conf.creds), LAMBDA u, v : u < v))

\* The order compares each team with itself, so that the teams stay where they are.
SortTeams(teams) == teams

NameTeams(teams) ==
    [i \in DOMAIN teams |->
        [teams[i] EXCEPT !.name = IF @ = NoName THEN <<"team", i>> ELSE @]]

\* In persist mode every team has a token.
TokenTeams(teams, persists) ==
    [i \in DOMAIN teams |->
        [teams[i] EXCEPT !.token = IF persists /\ @ = NoName THEN teams[i].name ELSE @]]

CompleteTeams(conf) == TokenTeams(NameTeams(SortTeams(conf.teams)), conf.persists)

\* The times that make no sense.
TimesMatch(conf) ==
    /\ conf.jitter < conf.delay
    /\ conf.timeout < conf.delay - conf.jitter

\* A map of box names is asked for each name, but nothing is ever put into it.
BoxNamesDiffer(conf) == TRUE

TeamsDiffer(conf) ==
    /\ NeighboursDiffer(Column(conf.teams, LAMBDA t : t.ip))
    /\ conf.persists => NeighboursDiffer(Column(CompleteTeams(conf), LAMBDA t : t.token))

\* conf.missing: the event title, the certificate, an admin's or a team's name, password or
\* address, whatever of these the file must have and has not.
Complain(conf) ==
    \/ conf.missing # {} \/ conf.creds = <<>>
    \/ ~TimesMatch(conf)
    \/ ~BoxNamesDiffer(conf) \/ ~UsernamesDiffer(conf) \/ ~TeamsDiffer(conf)

\* Neighbours in a CheckList must not have the same name.
CheckNamesDiffer(boxes) ==
    \A b \in ToSet(boxes) : NeighboursDiffer(Column(b.list, LAMBDA c : c.name))

CompleteBoxes(conf) == [k \in DOMAIN conf.boxes |-> CompleteBox(conf.boxes[k])]

\* Mutant: the default timeout is written back, too.
CompletedTimeout(conf) ==
    [conf EXCEPT !.teams = CompleteTeams(conf), !.boxes = CompleteBoxes(conf),
                 !.timeout = Given(@, DefaultTimeout)]

Completed(conf) == [conf EXCEPT !.teams = CompleteTeams(conf), !.boxes = CompleteBoxes(conf)]

\* What checkConfig says of a configuration, and what it turns it into.
checkConfig(file) ==
    LET conf == WithDefaults(file)
        objection == validateChecks(conf.boxes)
    IN  [verdict |-> CASE Complain(conf) -> "error"
                       [] ~Complain(conf) /\ objection # "ok" -> objection
                       [] OTHER -> IF CheckNamesDiffer(CompleteBoxes(conf)) THEN "ok" ELSE "error",
         conf |-> Completed(conf)]
=============================================================================
