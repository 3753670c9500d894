----------------------------- MODULE GuestTable -----------------------------
(***************************************************************************)
(* Several guests at one host: the table host/guests.conf, the agents that *)
(* host/install_guests.py makes of its rows, the instances of the server   *)
(* that launchd runs for them, the guests that dial them and tell their    *)
(* name, and the tool calls that name a guest.  A row has one port here    *)
(* for its daemon and its control port; 1 is that of the first guest.      *)
(***************************************************************************)
EXTENDS HostMachine

CONSTANTS
    Guest,      \* the emulated machines
    Tables,     \* what may be written to host/guests.conf
    Confs       \* what may be written to a guest's prefs

VARIABLES
    table,      \* host/guests.conf
    agents,     \* the agents of the guests, by label
    holder,     \* the label of the instance that has bound each port
    link,       \* the guest connected to each port, and the name it told
    hello,      \* the last line about a HELLO in the log of each label
    conf,       \* NAME= and TCPPORT= of each guest's prefs
    job,        \* a run of install_guests.py
    call        \* a tool call, and where the last one was executed

tableVars == <<table, agents, holder, link, hello, conf, job, call>>

Name  == {"a", "b"}
Port  == {1, 2}
Label == {"primary"} \union Name
Row   == [name : Name, port : Port, local : BOOLEAN]
Conf  == [name : Name \union {""}, port : Port]

ASSUME TableAssumption == Tables \subseteq SUBSET Row /\ Confs \subseteq Conf

NoAgentFile == [state |-> "none", name |-> "", port |-> 1]
NoLink      == [guest |-> "nobody", said |-> ""]
NoCall      == [pc |-> "idle", asked |-> "", port |-> 1, sure |-> FALSE, said |-> ""]

\* good: nothing has failed, and the table has not changed; fixed: the last run has made agents
\* of all rows, and the table has not changed since.
JobState ==
    [pc : {"idle", "work"}, all : BOOLEAN, rows : SUBSET Row, drop : SUBSET Label, good : BOOLEAN,
     fixed : BOOLEAN]

\* sure: the agents were those of the table when the call was made, and the table has not
\* changed since.
CallState ==
    [pc : {"idle", "sent", "done"}, asked : Name \union {""}, port : Port, sure : BOOLEAN,
     said : Name \union {""}]

TableTypeOK ==
    /\ table \in SUBSET Row
    /\ agents \in [Label -> [state : {"none", "file", "loaded"}, name : Name \union {""}, port : Port]]
    /\ holder \in [Port -> Label \union {"nobody"}]
    /\ link \in [Port -> [guest : Guest \union {"nobody"}, said : Name \union {""}]]
    /\ hello \in [Label -> {"none", "ok", "nameless", "refused"}]
    /\ conf \in [Guest -> Conf]
    /\ job \in JobState
    /\ call \in CallState

-----------------------------------------------------------------------------
(* host/guests.py *)

\* What parse accepts: no name and no port twice, one emulator on this machine.
Valid(t) ==
    \A r, s \in t : r # s => r.name # s.name /\ r.port # s.port /\ ~(r.local /\ s.local)

\* Mutant: every label has the name of its row.
LabelOf_Name(r) == r.name
LabelOf(r) == IF r.port = 1 THEN "primary" ELSE r.name

AgentOf(r) == [state |-> "loaded", name |-> r.name, port |-> r.port]

TableInit(m) ==
    /\ table = m.table /\ conf = m.conf
    /\ agents = [l \in Label |->
                    IF \E r \in m.table : LabelOf(r) = l
                    THEN AgentOf(CHOOSE r \in m.table : LabelOf(r) = l) ELSE NoAgentFile]
    /\ holder = [p \in Port |-> "nobody"]
    /\ link = [p \in Port |-> NoLink]
    /\ hello = [l \in Label |-> "none"]
    /\ job = [pc |-> "idle", all |-> TRUE, rows |-> {}, drop |-> {}, good |-> TRUE, fixed |-> TRUE]
    /\ call = NoCall

Edit(t) ==
    /\ Spends("edits")
    /\ table' = t /\ t # table
    /\ job' = [job EXCEPT !.good = FALSE, !.fixed = FALSE]
    /\ call' = [call EXCEPT !.sure = FALSE]
    /\ UNCHANGED <<agents, holder, link, hello, conf>>

-----------------------------------------------------------------------------
(* host/install_guests.py *)

Installed == {l \in Label : agents[l].state # "none"}

\* Mutant: agents that are no longer in the table are left.
Dropped_None(rows, all) == {}
\* With --guest nothing is removed.
Dropped(rows, all) == IF all THEN Installed \ {LabelOf(r) : r \in rows} ELSE {}

StartJob(only) ==
    /\ job.pc = "idle" /\ Spends("jobs")
    /\ table # {} /\ Valid(table) /\ only \subseteq {r.name : r \in table}
    /\ LET rows == IF only = {} THEN table ELSE {r \in table : r.name \in only} IN
        job' = [pc |-> "work", all |-> only = {}, rows |-> rows, drop |-> Dropped(rows, only = {}),
                good |-> TRUE, fixed |-> FALSE]
    /\ UNCHANGED <<table, agents, holder, link, hello, conf, call>>

\* The instance of the label ends, and with it the connection it has.
Ends(l) ==
    /\ holder' = [p \in Port |-> IF holder[p] = l THEN "nobody" ELSE holder[p]]
    /\ link' = [p \in Port |-> IF holder[p] = l THEN NoLink ELSE link[p]]

BootOut(l) ==
    /\ job.pc = "work" /\ l \in job.drop
    /\ agents' = [agents EXCEPT ![l] = NoAgentFile]
    /\ Ends(l)
    /\ job' = [job EXCEPT !.drop = @ \ {l}]
    /\ UNCHANGED <<table, hello, conf, call, supply>>

\* launchd may refuse to start it, twice.
WriteAgent(r, fault) ==
    /\ job.pc = "work" /\ job.drop = {}
    /\ IF fault THEN Spends("faults") ELSE UNCHANGED supply
    /\ agents' = [agents EXCEPT ![LabelOf(r)] = [AgentOf(r) EXCEPT !.state = IF fault THEN "file" ELSE "loaded"]]
    /\ Ends(LabelOf(r))
    /\ job' = [job EXCEPT !.rows = @ \ {r}, !.good = @ /\ ~fault]
    /\ UNCHANGED <<table, hello, conf, call>>

EndJob ==
    /\ job.pc = "work" /\ job.drop = {} /\ job.rows = {}
    /\ job' = [job EXCEPT !.pc = "idle", !.fixed = job.all /\ job.good]
    /\ UNCHANGED <<table, agents, holder, link, hello, conf, call, supply>>

KillJob ==
    /\ job.pc = "work" /\ Spends("crashes")
    /\ job' = [job EXCEPT !.pc = "idle", !.rows = {}, !.drop = {}, !.good = FALSE]
    /\ UNCHANGED <<table, agents, holder, link, hello, conf, call>>

-----------------------------------------------------------------------------
(* The instances of the server, and the guests *)

\* launchd starts an instance again until it can bind its port.
Bind(l) ==
    /\ agents[l].state = "loaded" /\ holder[agents[l].port] = "nobody"
    /\ holder' = [holder EXCEPT ![agents[l].port] = l]
    /\ UNCHANGED <<table, agents, link, hello, conf, job, call, supply>>

\* Mutant: a guest of another name is served.
NameVerdict_Lenient(expected, reported) == IF reported = "" THEN "nameless" ELSE "ok"
NameVerdict(expected, reported) ==
    IF reported = "" THEN "nameless" ELSE IF reported = expected THEN "ok" ELSE "refused"

\* Mutant: the first refusal is what the log is read for.
LastHello_Refused(l, verdict) == IF hello[l] = "refused" THEN "refused" ELSE verdict
\* What the last line about a HELLO says.
LastHello(l, verdict) == verdict

\* A guest connects and answers HELLO; one of another name is refused.  Where no answer is heard
\* it is taken for an old one.
Dial(g, heard) ==
    LET p == conf[g].port
        l == holder[p]
        name == IF heard THEN conf[g].name ELSE ""
        verdict == NameVerdict(agents[l].name, name) IN
    /\ IF heard THEN UNCHANGED supply ELSE Spends("faults")
    /\ l # "nobody" /\ link[p] = NoLink /\ \A q \in Port : link[q].guest # g
    /\ hello' = [hello EXCEPT ![l] = LastHello(l, verdict)]
    /\ link' = IF verdict = "refused" THEN link
               ELSE [link EXCEPT ![p] = [guest |-> g, said |-> name]]
    /\ UNCHANGED <<table, agents, holder, conf, job, call>>

Hang(p) ==
    /\ link[p] # NoLink /\ Spends("faults")
    /\ link' = [link EXCEPT ![p] = NoLink]
    /\ UNCHANGED <<table, agents, holder, hello, conf, job, call>>

\* The prefs are changed; a connected guest stays connected.
Reconfigure(g, c) ==
    /\ Spends("edits") /\ conf[g] # c
    /\ conf' = [conf EXCEPT ![g] = c]
    /\ UNCHANGED <<table, agents, holder, link, hello, job, call>>

-----------------------------------------------------------------------------
(* The doctor's look at the rows *)

\* What it finds about a row; of the first one the agent and the ports are looked at as those
\* of the host.
RowFindings(r) ==
    LET l == LabelOf(r) IN
    CASE r.port # 1 /\ agents[l].state # "loaded" -> {"guest_agent_down"}
      [] r.port # 1 /\ agents[l].state = "loaded" /\ holder[r.port] = "nobody" -> {"guest_ports"}
      [] OTHER ->
            CASE hello[l] = "refused" -> {"guest_name_refused"}
              [] hello[l] = "nameless" /\ link[r.port] # NoLink -> {"guest_unverified"}
              [] OTHER -> {}

GuestFindings == IF Valid(table) THEN UNION {RowFindings(r) : r \in table} ELSE {"guest_table_invalid"}

-----------------------------------------------------------------------------
(* call_tool with the argument guest *)

Call(n) ==
    /\ call.pc # "sent" /\ Spends("calls")
    /\ Valid(table)
    /\ \E r \in table :
        /\ r.name = n
        /\ call' = [pc |-> "sent", asked |-> n, port |-> r.port, sure |-> job.fixed, said |-> ""]
    /\ UNCHANGED <<table, agents, holder, link, hello, conf, job>>

\* It fails when nobody listens there, or no guest is connected.
Execute ==
    /\ call.pc = "sent"
    /\ call' = IF link[call.port] = NoLink THEN [call EXCEPT !.pc = "idle"]
               ELSE [call EXCEPT !.pc = "done", !.said = link[call.port].said]
    /\ UNCHANGED <<table, agents, holder, link, hello, conf, job, supply>>

Works == \E l \in Label : Bind(l)
Dials == \E g \in Guest : Dial(g, TRUE)

TableNext ==
    \/ \E t \in Tables : Edit(t)
    \/ \E only \in SUBSET Name : StartJob(only)
    \/ \E l \in Label : BootOut(l)
    \/ \E r \in job.rows, fault \in BOOLEAN : WriteAgent(r, fault)
    \/ EndJob \/ KillJob \/ Works \/ Execute
    \/ \E g \in Guest, heard \in BOOLEAN : Dial(g, heard)
    \/ \E p \in Port : Hang(p)
    \/ \E g \in Guest, c \in Confs : Reconfigure(g, c)
    \/ \E n \in Name : Call(n)

=============================================================================
