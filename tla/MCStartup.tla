----------------------------- MODULE MCStartup -----------------------------
(* Configurations and delayed checks to start with. *)
EXTENDS Startup

Check(kind, opts, items) ==
    [kind |-> kind, name |-> NoName, display |-> "", opts |-> opts, items |-> items]

Titled(check, title) == [check EXCEPT !.display = title]

PlainCheck == Check("tcp", {"port"}, {})

Box(name, ip, checks) == [name |-> name, ip |-> ip, checks |-> checks, list |-> <<>>, time |-> NoTime]

Team(ip) == [name |-> NoName, ip |-> ip, token |-> NoName]

Base ==
    [missing |-> {}, delay |-> 0, jitter |-> 0, timeout |-> 0, creds |-> << <<1>> >>,
     teams |-> <<Team(1)>>, persists |-> FALSE,
     boxes |-> <<Box("a", <<"x", 1>>, <<PlainCheck>>)>>]

Short(file) ==
    [conf |-> file, delayed |-> <<>>, horizon |-> 1, restarts |-> 0, resets |-> 0,
     pauses |-> FALSE]

-----------------------------------------------------------------------------
(* One check of each kind, with all its options *)

KindOpts(kind) ==
    CASE kind = "cmd"  -> {"credlists", "keywords", "unknownlist"}
      [] kind \in {"ftp", "winrm"} -> {"anonymous", "unknownlist"}
      [] kind = "smb"  -> {"anonymous", "unknownlist", "domain"}
      [] kind = "irc"  -> {"otherport"}
      [] kind = "imap" -> {"encrypted", "anonymous", "unknownlist"}
      [] kind = "ldap" -> {"domain", "encrypted", "anonymous", "unknownlist"}
      [] kind = "ping" -> {"lossy", "percent", "over", "count"}
      [] kind = "tcp"  -> {"port"}
      [] kind = "sql"  -> {"driver", "unknownlist", "anonymous"}
      [] kind = "ssh"  -> {"key", "badkey", "attempts", "unknownlist", "anonymous"}
      [] kind = "web"  -> {"credlists"}
      [] kind \in {"smtp", "vnc"} -> {"unknownlist", "anonymous"}
      [] kind \in {"dns", "rdp"} -> {}

\* An option that needs another one.
Together(kind, o) ==
    /\ kind = "cmd" /\ "unknownlist" \in o => "credlists" \in o
    /\ "badkey" \in o => "key" \in o
    /\ "over" \in o => "percent" \in o

\* A pattern is malformed or matches itself, and a record is of one kind.
Chosen(kind, i) ==
    /\ Sensible(kind, i)
    /\ ~({"malformed", "self"} \subseteq i)
    /\ ~({"A", "MX"} \subseteq i)
    /\ kind = "irc" => i # {}

NeedsItem == {"cmd", "irc"}
HasItems == {"dns", "ftp", "irc", "sql", "ssh", "winrm", "smb", "web", "cmd"}

KindItems(kind) ==
    (IF kind \in NeedsItem THEN {} ELSE {{}})
    \cup (IF kind \in HasItems
          THEN {{i} : i \in {j \in SUBSET KindAsks(kind) : Chosen(kind, j)}}
          ELSE {})

OneCheck ==
    {Short([Base EXCEPT !.boxes[1].checks = <<c>>]) :
        c \in UNION {{Check(kind, o, items) :
                        o \in {p \in SUBSET KindOpts(kind) : Together(kind, p)},
                        items \in KindItems(kind)} : kind \in ToSet(KindOrder)}}

-----------------------------------------------------------------------------
(* Times, names, addresses *)

Times ==
    {Short([Base EXCEPT !.delay = d, !.jitter = j, !.timeout = t]) :
        d \in {0, 20, 60}, j \in {-1, 0, 3, 30}, t \in {0, 5, 30}}

Users == {<< <<1, 2>>, <<2, 3>> >>, << <<1, 3>>, <<2, 3>> >>, << <<3, 1>>, <<2>> >>, <<>>}

TeamLists == {<<Team(1), Team(2)>>, <<Team(1), Team(1)>>, <<Team(1), Team(2), Team(1)>>}

TwoBoxes(ip, other) ==
    <<Box("a", ip, <<Titled(PlainCheck, "web"), Check("web", {}, {{}})>>),
      Box("b", other, <<PlainCheck, Check("rdp", {}, {}), PlainCheck>>)>>

Names ==
    {Short([Base EXCEPT !.creds = u, !.teams = ts, !.persists = p]) :
        u \in Users, ts \in TeamLists, p \in BOOLEAN}
    \cup {Short([Base EXCEPT !.boxes[1] = Box("a", ip, cs)]) :
        ip \in {NoName, <<"X", 1>>},
        cs \in {<<>>, <<PlainCheck, PlainCheck>>, <<PlainCheck, Check("rdp", {}, {})>>,
                <<PlainCheck, Check("rdp", {}, {}), PlainCheck>>,
                <<Titled(PlainCheck, "web"), Check("web", {}, {{}})>>}}
    \cup {Short([Base EXCEPT !.missing = {"event"}])}

-----------------------------------------------------------------------------
(* Delayed checks *)

Swapped == <<Box("a", <<"X", 1>>, <<PlainCheck>>), Box("b", <<"x", 1>>, <<PlainCheck>>),
             Box("c", <<"X", 0>>, <<>>)>>

Invalid == Check("tcp", {}, {})
Malformed == Check("ssh", {}, {{"output", "regex", "malformed"}})

LateBox(name, time, check) ==
    [Box(name, <<"X", 3>>, <<check>>) EXCEPT !.time = time]

Late(times, faults) ==
    <<LateBox("a", times[1], Titled(faults[1], "late1")),
      LateBox("d", times[2], Titled(faults[2], "late2")),
      LateBox("d", times[3], Titled(faults[3], "late3"))>>

Delay(times, faults, restarts_, resets_, pauses) ==
    [conf |-> [Base EXCEPT !.boxes = Swapped], delayed |-> Late(times, faults),
     horizon |-> 3, restarts |-> restarts_, resets |-> resets_, pauses |-> pauses]

Delays ==
    {Delay(<<0, 1, 0>>, <<PlainCheck, PlainCheck, PlainCheck>>, 1, 1, FALSE),
     Delay(<<1, 0, 1>>, <<PlainCheck, PlainCheck, Invalid>>, 0, 1, TRUE),
     Delay(<<0, 0, 0>>, <<Invalid, PlainCheck, Invalid>>, 1, 0, FALSE),
     Delay(<<1, 0, 0>>, <<PlainCheck, PlainCheck, PlainCheck>>, 1, 1, TRUE),
     Delay(<<0, 1, 1>>, <<PlainCheck, Malformed, PlainCheck>>, 0, 1, FALSE),
     Delay(<<0, NoTime, 1>>, <<PlainCheck, PlainCheck, PlainCheck>>, 0, 0, FALSE)}

\* The box that comes second in the file comes first in the order of addresses.
Crossed ==
    {Short([Base EXCEPT !.boxes = <<Box("a", <<"x", 1>>, <<c>>), Box("b", <<"X", 1>>, <<d>>)>>]) :
        c \in {PlainCheck, Invalid}, d \in {PlainCheck, Invalid, Malformed}}

MCTrials == OneCheck \cup Times \cup Names \cup Delays \cup Crossed
=============================================================================
