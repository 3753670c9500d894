---------------------------- MODULE GuestConfig ----------------------------
(***************************************************************************)
(* The preferences file of the guest and the networking stack it selects.  *)
(*                                                                         *)
(* Three programs rewrite "AppleBridge Prefs": the daemon (mac/src/main.c  *)
(* through prefs.c), the configuration program (mac/config/config.c) and   *)
(* the control panel (mac/controlpanel/abcp.c).  The first two write the   *)
(* whole file from the copy they hold in memory, the panel edits lines of  *)
(* it, and a person may edit it by hand.  The daemon follows a changed     *)
(* NET= line while it runs and brings up Open Transport, MacTCP or the     *)
(* serial driver (mac/src/transport.c).                                    *)
(*                                                                         *)
(* Of the file, the lines IP=, NET= and APP= are modelled.                 *)
(***************************************************************************)
EXTENDS Naturals, Sequences, SequencesExt

CONSTANTS
    Addr,       \* host addresses a person may enter
    App,        \* helper applications
    NoAddr,     \* an IP= line with nothing after it
    NoLine,     \* a line the file does not have
    NoConn,     \* null value
    MaxApps,    \* PREFS_MAX_APPS
    Fits,       \* APP= lines in the part of the file the panel reads
    MaxLines,   \* bound of the model: APP= lines in a file
    Machines    \* what may be installed: Open Transport, MacTCP

Net == {"OT", "MacTCP", "Serial"}

ASSUME ConfigAssumption ==
    /\ NoAddr \notin Addr /\ NoLine \notin Addr \union {NoAddr} \union Net
    /\ MaxApps \in Nat /\ Fits \in Nat /\ MaxLines \in Nat
    /\ Machines \subseteq [ot : BOOLEAN, mactcp : BOOLEAN]

VARIABLES
    machine,    \* what this Macintosh has; it does not change
    file,       \* the preferences file
    daemon,     \* gPrefs of the daemon and the address it has parsed
    stack,      \* the transport dispatcher
    conn,       \* the daemon's connection
    config,     \* gPrefs of the configuration program
    panel,      \* does the panel's list show the file as it is
    chosen,     \* history: the settings people have asked for
    slipped     \* history: an edit has been lost in one of the known ways

vars == <<machine, file, daemon, stack, conn, config, panel, chosen, slipped>>

-----------------------------------------------------------------------------
(* State *)

AppList   == {s \in Seq(App) : Len(s) <= MaxApps}
Settings  == [ip : Addr \union {NoAddr}, net : Net, apps : AppList]
PrefsFile == [ip : Addr \union {NoAddr, NoLine}, net : Net \union {NoLine}, apps : Seq(App)]

\* A copy is fresh while nobody else has changed the file since it was read.
DaemonState == [up : BOOLEAN, prefs : Settings, fresh : BOOLEAN, host : Addr \union {NoAddr}]
ConfigState == [open : BOOLEAN, prefs : Settings, fresh : BOOLEAN]

\* want and ok are what ABNetInit was last called with and how it ended.
StackState == [active : Net, ot : BOOLEAN, proven : BOOLEAN, want : Net, ok : BOOLEAN]
Link       == [via : Net, to : Addr \union {NoAddr}]

Defaults == [ip |-> NoAddr, net |-> "OT", apps |-> <<>>]
\* No file, or one that SetEOF has emptied: LoadPrefs fails for both.
Empty    == [ip |-> NoLine, net |-> NoLine, apps |-> <<>>]

NewStack == [active |-> "OT", ot |-> FALSE, proven |-> FALSE, want |-> "OT", ok |-> FALSE]
Stopped  == [up |-> FALSE, prefs |-> Defaults, fresh |-> FALSE, host |-> NoAddr]
Shut     == [open |-> FALSE, prefs |-> Defaults, fresh |-> FALSE]

TypeOK ==
    /\ machine \in Machines
    /\ file \in PrefsFile
    /\ daemon \in DaemonState
    /\ stack \in StackState
    /\ conn \in Link \union {NoConn}
    /\ config \in ConfigState
    /\ panel \in BOOLEAN
    /\ chosen \in Settings
    /\ slipped \in BOOLEAN

Init ==
    /\ machine \in Machines
    /\ file = Empty
    /\ daemon = Stopped /\ stack = NewStack /\ conn = NoConn
    /\ config = Shut /\ panel = FALSE
    /\ chosen = Defaults /\ slipped = FALSE

-----------------------------------------------------------------------------
(* Reading and writing the file: prefs.c *)

Leading(s, n) == SubSeq(s, 1, IF Len(s) < n THEN Len(s) ELSE n)

\* Mutant: the list of helpers is not cleared before the file's is read.
Loaded_KeepsApps(p, f) ==
    IF f = Empty THEN p
    ELSE [ip   |-> IF f.ip = NoLine THEN p.ip ELSE f.ip,
          net  |-> IF f.net = NoLine THEN p.net ELSE f.net,
          apps |-> Leading(p.apps \o f.apps, MaxApps)]

\* LoadPrefs over p: a line the file does not have leaves p as it is.
Loaded(p, f) ==
    IF f = Empty THEN p
    ELSE [ip   |-> IF f.ip = NoLine THEN p.ip ELSE f.ip,
          net  |-> IF f.net = NoLine THEN p.net ELSE f.net,
          apps |-> Leading(f.apps, MaxApps)]

\* What a program that starts now reads.
Meaning(f) == Loaded(Defaults, f)
Complete(f) == f.ip # NoLine /\ f.net # NoLine

\* SavePrefs: refused before the file is opened, or left empty because the write
\* after SetEOF(0) fails or the machine stops, or done.
Saves(p) == file' \in {p, file, Empty}
Done(p)  == file' = p

\* Histories: the person asked for c, or an edit is lost.
Asked(c) == slipped' = slipped /\ chosen' = IF slipped THEN Defaults ELSE c
Slips    == slipped' = TRUE /\ chosen' = Defaults
Keeps    == UNCHANGED <<chosen, slipped>>

\* What a save of p by a program that held old comes to, when the person asked
\* for c and is told if it was refused.
Recorded(old, p, c) ==
    IF Done(p) THEN IF old = Meaning(file) THEN Asked(c) ELSE Slips
    ELSE IF file' = file THEN Keeps ELSE Slips

\* What the others know afterwards.
Listed == panel' = (panel /\ file'.apps = file.apps)
Stale(state) == [state EXCEPT !.fresh = @ /\ file' = file]

-----------------------------------------------------------------------------
(* The transport dispatcher: transport.c *)

\* ABNetInit(want) on stack s: MacTCP falls back to Open Transport, whose
\* initialisation may fail; a failure leaves the active transport as it was.
Brought(want, s) ==
    LET t == [s EXCEPT !.want = want, !.ok = TRUE] IN
    IF want = "Serial" \/ (want = "MacTCP" /\ machine.mactcp)
    THEN {[t EXCEPT !.active = want]}
    ELSE {[t EXCEPT !.ok = FALSE]}
            \union IF machine.ot THEN {[t EXCEPT !.active = "OT", !.ot = TRUE]} ELSE {}

\* ABNetShutdown: the MacTCP driver stays open for others.
Down(s) == [s EXCEPT !.ot = @ /\ s.active = "MacTCP"]

\* What a request for a transport may run on.
Runs(want) == IF want = "MacTCP" THEN {"MacTCP", "OT"} ELSE {want}

-----------------------------------------------------------------------------
(* The daemon: main.c *)

\* A first start writes the defaults.  Without a network the daemon exits.
DaemonStart ==
    /\ ~daemon.up
    /\ IF file = Empty THEN Saves(Defaults) ELSE UNCHANGED file
    /\ \E s \in Brought(Meaning(file).net, NewStack) :
          IF s.ok
          THEN /\ stack' = s
               /\ daemon' = [up |-> TRUE, prefs |-> Meaning(file), fresh |-> TRUE,
                             host |-> Meaning(file).ip]
          ELSE UNCHANGED <<stack, daemon>>
    /\ config' = Stale(config)
    /\ Listed
    /\ UNCHANGED <<machine, conn, chosen, slipped>>

\* Mutant: the change is looked for only while there is no connection.
DaemonPolls_WhenIdle ==
    /\ daemon.up /\ conn = NoConn
    /\ file # Empty /\ Meaning(file).net # daemon.prefs.net
    /\ daemon' = [daemon EXCEPT !.prefs.net = Meaning(file).net]
    /\ stack' \in Brought(Meaning(file).net, Down(stack))
    /\ UNCHANGED <<machine, file, conn, config, panel, chosen, slipped>>

\* Mutant: the connection is left open over the swap.
DaemonPolls_KeepsConn ==
    /\ daemon.up
    /\ file # Empty /\ Meaning(file).net # daemon.prefs.net
    /\ daemon' = [daemon EXCEPT !.prefs.net = Meaning(file).net]
    /\ stack' \in Brought(Meaning(file).net, Down(stack))
    /\ UNCHANGED <<machine, file, conn, config, panel, chosen, slipped>>

\* MaybeHotSwapTransport: a changed NET= is adopted, and nothing else with it.
DaemonPolls ==
    /\ daemon.up
    /\ file # Empty /\ Meaning(file).net # daemon.prefs.net
    /\ conn' = NoConn
    /\ daemon' = [daemon EXCEPT !.prefs.net = Meaning(file).net]
    /\ stack' \in Brought(Meaning(file).net, Down(stack))
    /\ UNCHANGED <<machine, file, config, panel, chosen, slipped>>

\* Without an address the daemon does not dial; it reads the file again, all of
\* it, and a NET= that has changed is taken over without ABNetInit.
DaemonRereads ==
    /\ daemon.up /\ conn = NoConn /\ daemon.prefs.ip = NoAddr
    /\ LET p == Loaded(daemon.prefs, file) IN
       daemon' = [daemon EXCEPT !.prefs = p, !.host = p.ip, !.fresh = @ \/ Complete(file)]
    /\ UNCHANGED <<machine, file, stack, conn, config, panel, chosen, slipped>>

Dials == daemon.up /\ conn = NoConn /\ daemon.prefs.ip # NoAddr
Open(via) == conn' = [via |-> via, to |-> daemon.host]

OTConnects     == stack.active = "OT" /\ stack.ot /\ Open("OT") /\ UNCHANGED stack
SerialConnects == stack.active = "Serial" /\ Open("Serial") /\ UNCHANGED stack
MacTCPConnects == stack.active = "MacTCP" /\ Open("MacTCP") /\ stack' = [stack EXCEPT !.proven = TRUE]

\* ABConnect on the active transport.
DaemonConnects ==
    /\ Dials
    /\ OTConnects \/ SerialConnects \/ MacTCPConnects
    /\ UNCHANGED <<machine, file, daemon, config, panel, chosen, slipped>>

\* The first MacTCP connect to fail, before any has worked, turns to Open
\* Transport for the rest of the session, whether that can be had or not.
DaemonFallsBack ==
    /\ Dials /\ stack.active = "MacTCP" /\ ~stack.proven /\ machine.ot
    /\ \E ot \in BOOLEAN : stack' = [stack EXCEPT !.active = "OT", !.ot = @ \/ ot]
    /\ \/ stack'.ot /\ Open("OT")
       \/ UNCHANGED conn
    /\ UNCHANGED <<machine, file, daemon, config, panel, chosen, slipped>>

DaemonLosesConn ==
    /\ conn # NoConn
    /\ conn' = NoConn
    /\ UNCHANGED <<machine, file, daemon, stack, config, panel, chosen, slipped>>

DaemonStops ==
    /\ daemon.up
    /\ daemon' = Stopped /\ stack' = NewStack /\ conn' = NoConn
    /\ UNCHANGED <<machine, file, config, panel, chosen, slipped>>

\* SaveMonitorBounds: the monitor window was moved, and the daemon writes the
\* settings it started with.
DragsMonitor ==
    /\ daemon.up
    /\ Saves(daemon.prefs)
    /\ Recorded(daemon.prefs, daemon.prefs, chosen)
    /\ daemon' = [daemon EXCEPT !.fresh = Done(daemon.prefs) \/ (@ /\ file' = file)]
    /\ config' = Stale(config)
    /\ Listed
    /\ UNCHANGED <<machine, stack, conn>>

-----------------------------------------------------------------------------
(* The configuration program: config.c *)

ConfigOpens ==
    /\ ~config.open
    /\ config' = [open |-> TRUE, prefs |-> Meaning(file), fresh |-> TRUE]
    /\ UNCHANGED <<machine, file, daemon, stack, conn, panel, chosen, slipped>>

ConfigCloses ==
    /\ config.open
    /\ config' = Shut
    /\ UNCHANGED <<machine, file, daemon, stack, conn, panel, chosen, slipped>>

\* The copy changes, then all of it is written.
ConfigWrites(p) ==
    /\ Saves(p)
    /\ daemon' = Stale(daemon)
    /\ Listed
    /\ UNCHANGED <<machine, stack, conn>>

Held(p) == [config EXCEPT !.prefs = p, !.fresh = Done(p)]

\* SaveHostIP; an empty field means "not configured".
ConfigSetsAddress ==
    \E a \in Addr \union {NoAddr} :
       LET p == [config.prefs EXCEPT !.ip = a] IN
       /\ config.open
       /\ ConfigWrites(p)
       /\ Recorded(config.prefs, p, [chosen EXCEPT !.ip = a])
       /\ config' = Held(p)

\* A networking service is picked.  The radio button shows the choice whether it
\* was written or not.
ConfigPicksNet ==
    \E n \in Net :
       LET p == [config.prefs EXCEPT !.net = n] IN
       /\ config.open
       /\ ConfigWrites(p)
       /\ IF Done(p) THEN Recorded(config.prefs, p, [chosen EXCEPT !.net = n]) ELSE Slips
       /\ config' = Held(p)

\* Mutant: the number of helpers is not checked.
Room_Unchecked == TRUE

Room == Len(config.prefs.apps) < MaxApps

\* AddHelperApp saves, if there is room, and reads the file again.
ConfigAddsHelper ==
    \E a \in App :
       LET old == config.prefs
           p   == [old EXCEPT !.apps = Append(@, a)]
       IN /\ config.open
          /\ IF Room
             THEN ConfigWrites(p) /\ Recorded(old, p, [chosen EXCEPT !.apps = Append(@, a)])
             ELSE UNCHANGED <<machine, file, daemon, stack, conn, panel, chosen, slipped>>
          /\ config' = [config EXCEPT !.prefs = Loaded(IF Room THEN p ELSE old, file'),
                                      !.fresh = Complete(file') \/ (@ /\ ~Room)]

-----------------------------------------------------------------------------
(* The control panel: abcp.c *)

Edited ==
    /\ daemon' = Stale(daemon) /\ config' = Stale(config)
    /\ UNCHANGED <<machine, stack, conn>>

\* The list is read when the panel opens or comes to the front.
PanelShows ==
    /\ ~panel
    /\ panel' = TRUE
    /\ UNCHANGED <<machine, file, daemon, stack, conn, config, chosen, slipped>>

\* AddHelper appends a line, however many there are.
PanelAdds ==
    \E a \in App :
       /\ Len(file.apps) < MaxLines
       /\ file' = [file EXCEPT !.apps = Append(@, a)]
       /\ IF Len(file.apps) < MaxApps THEN Asked([chosen EXCEPT !.apps = Append(@, a)]) ELSE Slips
       /\ panel' = TRUE
       /\ Edited

\* What a removal of a row means to the person who asked for it.
Removed(row) ==
    IF panel /\ Len(file.apps) <= Fits /\ Len(file.apps) <= MaxApps
    THEN Asked([chosen EXCEPT !.apps = RemoveAt(@, row)])
    ELSE Slips

\* A row that is not in the file any more can be selected in a stale list only.
Selectable == {row \in 1..Fits : file # Empty /\ (panel => row <= Len(file.apps))}
Without(s, row) == IF row <= Len(s) THEN RemoveAt(s, row) ELSE s

\* Mutant: the end of the file is not moved, and its last line stays.
PanelRemoves_NoTruncate ==
    \E row \in Selectable :
       /\ row <= Len(file.apps)
       /\ file' = [file EXCEPT !.apps = RemoveAt(@, row) \o <<@[Len(@)]>>]
       /\ Removed(row)
       /\ panel' = TRUE
       /\ Edited

\* RemoveSelectedHelper drops the row of the file that bears the number of the
\* one selected, and what its buffer does not hold (the line it ends in, of which
\* a part stays, is left out).
PanelRemoves ==
    \E row \in Selectable :
       /\ file' = [file EXCEPT !.apps = Without(Leading(@, Fits), row)]
       /\ Removed(row)
       /\ panel' = TRUE
       /\ Edited

-----------------------------------------------------------------------------

\* With an editor, or over the bridge: a line is changed or left out.
EditByHand ==
    /\ \/ \E i \in Addr \union {NoAddr, NoLine} : file' = [file EXCEPT !.ip = i]
       \/ \E n \in Net \union {NoLine} : file' = [file EXCEPT !.net = n]
    /\ file' # file /\ file' # Empty
    /\ Asked(Meaning(file'))
    /\ Listed
    /\ Edited

People ==
    \/ DragsMonitor
    \/ ConfigOpens \/ ConfigCloses
    \/ ConfigSetsAddress \/ ConfigPicksNet \/ ConfigAddsHelper
    \/ PanelShows \/ PanelAdds \/ PanelRemoves
    \/ EditByHand

Next ==
    \/ DaemonStart \/ DaemonPolls \/ DaemonRereads
    \/ DaemonConnects \/ DaemonFallsBack \/ DaemonLosesConn \/ DaemonStops
    \/ People

Spec == Init /\ [][Next]_vars

\* The daemon's loop comes round while it runs, connected or not.
FairSpec == Spec /\ WF_vars(DaemonPolls)

-----------------------------------------------------------------------------
(* Properties *)

\* A program that has read the file since it was last changed by another, and
\* whose own changes were written, holds what a program started now would read.
FreshCopies ==
    /\ daemon.fresh => daemon.prefs = Meaning(file)
    /\ config.fresh => config.prefs = Meaning(file)

\* The file says what people have asked for, unless an edit was lost in a known
\* way: a program wrote over a change it had not read, a rewrite was cut short,
\* a radio button's choice was not written, the panel was given more helpers
\* than are read or removed one from a stale list or from a long file.
SettingsKept == ~slipped => Meaning(file) = chosen

\* The connection runs on the active transport, which has been brought up, and
\* leads to the address the daemon names in its console; a transport that came
\* up is the one asked for last, or Open Transport for MacTCP.
NamedAndRunning ==
    /\ daemon.up /\ stack.ok => stack.active \in Runs(stack.want)
    /\ daemon.up => daemon.host = daemon.prefs.ip
    /\ conn # NoConn =>
          /\ daemon.up
          /\ conn.via = stack.active
          /\ conn.via = "OT" => stack.ot
          /\ conn.to = daemon.prefs.ip

\* The invariant the proofs use.
ConfigInv == TypeOK /\ FreshCopies /\ SettingsKept /\ NamedAndRunning

\* A changed NET= line is followed without a relaunch, whether the daemon is
\* connected or not, once the file is left alone; a change the address-less loop
\* has swallowed and a swap that failed are left aside.
Settled    == <>[][file' = file]_vars
Noticed    == stack.ok /\ stack.want = daemon.prefs.net
FollowsNet ==
    Settled /\ <>[](daemon.up /\ Noticed)
        => <>[](file = Empty \/ stack.active \in Runs(Meaning(file).net))

=============================================================================
