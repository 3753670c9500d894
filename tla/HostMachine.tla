---------------------------- MODULE HostMachine -----------------------------
(***************************************************************************)
(* The host as the installer (HostInstall) and the doctor (BridgeDoctor)   *)
(* find it: the prefs of the two emulators and the backend recorded as     *)
(* intended, the emulators that run, host/local.env, the agent, the disk   *)
(* images, and the one volume hfsutils has mounted, which every program    *)
(* that uses hfsutils shares.  An address is kept as the place it has on   *)
(* this machine, a prefs file as its `ether' lines.                        *)
(***************************************************************************)
EXTENDS Integers, Sequences, FiniteSets

CONSTANT Machines   \* the machines to begin with, each with the bounds of its behaviours

VARIABLES
    prefs,      \* the `ether' lines of each emulator's prefs, or that there is no file
    netmode,    \* the backend recorded as intended beside each of them
    newest,     \* the prefs file modified last
    up,         \* what each running emulator was launched with
    bundle,     \* the emulator that can be found on this disk
    env,        \* host/local.env
    agent,      \* the launchd agent, and the copy of the server that it runs
    disk,       \* the contents of the disk images
    vol,        \* the image hfsutils has mounted
    supply      \* what is left of the bounds, and the arguments the installer is called with

hostVars    == <<prefs, netmode, newest, up, bundle, env, agent, disk, vol>>
machineVars == <<hostVars, supply>>

Emulator == {"basilisk", "sheepshaver"}
Backend  == {"slirp", "bridge"}                     \* bridge: etherhelper/<interface>
NoFile   == <<"no file">>
Prefs    == {NoFile} \union UNION {[1..n -> Backend] : n \in 0..2}
Off      == [ether |-> "off", work |-> FALSE, helper |-> FALSE]
Address  == {"none", "own", "other", "gone", "dup", "router"}
Image    == {"work", "kit"}
App      == {"AppleBridge", "AppleBridgeInstaller", "ABJournalDRVR"}
PrefsFile == "AppleBridge Prefs"

\* ether is the backend it read at launch, work whether the guest's disk image is one of its
\* disks, helper whether its etherhelpertool is alive.
Running == [ether : Backend \union {"none"}, work : BOOLEAN, helper : BOOLEAN] \union {Off}

\* helper: it carries an etherhelpertool.  A hidden one is found only while it runs, and of one
\* that runs translocated the helper is seen, but no path is recorded.
Bundle == [app : Emulator, helper : BOOLEAN, place : {"known", "hidden", "translocated"}]

\* A server started by hand has no agent.  An agent has the address of local.env as of its
\* installation.
EnvState   == [present : BOOLEAN, addr : Address, app : {"none", "there", "moved"}]
AgentState == [state : {"absent", "hand", "installed", "loaded", "disabled"},
               deployed : BOOLEAN, addr : Address]

\* ip is the IP= line of its prefs file; baked: its binaries carry an address of their own;
\* strange: files were put in its root folder that its owner does not know of.
DiskState == [files : SUBSET (App \union {PrefsFile}), ip : Address, baked : BOOLEAN, strange : BOOLEAN]

MachineTypeOK ==
    /\ prefs \in [Emulator -> Prefs]
    /\ netmode \in [Emulator -> Backend \union {"none"}]
    /\ newest \in Emulator
    /\ up \in [Emulator -> Running]
    /\ bundle \in Bundle
    /\ env \in EnvState
    /\ agent \in AgentState
    /\ disk \in [Image -> DiskState]
    /\ vol \in Image \union {"none"}

Blank == [files |-> {}, ip |-> "none", baked |-> FALSE, strange |-> FALSE]

MachineInit(m) ==
    /\ supply = m.supply
    /\ prefs = m.prefs /\ netmode = m.netmode /\ newest = m.newest
    /\ bundle = m.bundle /\ env = m.env /\ agent = m.agent
    /\ up = m.up
    /\ disk = [work |-> m.work, kit |-> Blank]
    /\ vol = "none"

-----------------------------------------------------------------------------
(* Prefs files, and which of the two is meant *)

\* The script takes the first `ether' line, the probe of the doctor and the installer the last.
FirstEther(p) == IF p \in {NoFile, <<>>} THEN "none" ELSE p[1]
LastEther(p)  == IF p \in {NoFile, <<>>} THEN "none" ELSE p[Len(p)]

UpNow == {e \in Emulator : up[e] # Off}

Present == {e \in Emulator : prefs[e] # NoFile}

\* found: the emulators seen to run; named: what discovery found, or none.
Resolved(found, named) ==
    CASE found # {} -> IF "sheepshaver" \in found THEN "sheepshaver" ELSE "basilisk"
      [] found = {} /\ named # "none" -> named
      [] found = {} /\ named = "none" /\ Cardinality(Present) = 1 -> CHOOSE e \in Present : TRUE
      [] OTHER -> IF Present = {} THEN "basilisk" ELSE newest

-----------------------------------------------------------------------------
(* host/check_ether_backend.sh *)

\* Mutant: a line that is missing is not added.
CheckEtherBackend_NoAppend(e) ==
    LET current == FirstEther(prefs[e]) IN
    IF current = "none" \/ netmode[e] \in {"none", current} THEN UNCHANGED <<prefs, netmode, newest>>
    ELSE prefs' = [prefs EXCEPT ![e] = <<netmode[e]>>] /\ newest' = e /\ UNCHANGED netmode

\* Mutant: it goes on when there is no prefs file.
CheckEtherBackend_NoFile(e) ==
    LET current == FirstEther(prefs[e]) IN
    IF netmode[e] \in {"none", current} THEN UNCHANGED <<prefs, netmode, newest>>
    ELSE prefs' = [prefs EXCEPT ![e] = <<netmode[e], current>>] /\ newest' = e /\ UNCHANGED netmode

\* Without a record, what is configured is recorded; a backend that differs from the record is
\* rewritten in the first `ether' line, the others go, and a missing line is added.
CheckEtherBackend(e) ==
    LET current == FirstEther(prefs[e]) IN
    CASE prefs[e] = NoFile -> UNCHANGED <<prefs, netmode, newest>>
      [] prefs[e] # NoFile /\ netmode[e] = "none" ->
            /\ netmode' = [netmode EXCEPT ![e] = current]
            /\ UNCHANGED <<prefs, newest>>
      [] prefs[e] # NoFile /\ netmode[e] # "none" /\ netmode[e] = current -> UNCHANGED <<prefs, netmode, newest>>
      [] OTHER ->
            /\ prefs' = [prefs EXCEPT ![e] = <<netmode[e]>>]
            /\ newest' = e
            /\ UNCHANGED netmode

-----------------------------------------------------------------------------
(* The server, and the emulators *)

\* A server that cannot bind its address is started again and again.
Serving ==
    /\ agent.state \in {"hand", "loaded"}
    /\ agent.state = "loaded" => agent.deployed
    /\ agent.addr # "gone"

Spends(what) == supply[what] > 0 /\ supply' = [supply EXCEPT ![what] = @ - 1]

\* start_stack.sh checks the backend of BasiliskII, whether or not it runs already, and then
\* starts it; an emulator may also be started by hand, and with another set of disks.
Launch(e, byStack, work) ==
    /\ Spends("launches")
    /\ prefs[e] # NoFile
    /\ IF byStack THEN e = "basilisk" /\ CheckEtherBackend(e)
       ELSE up[e] = Off /\ UNCHANGED <<prefs, netmode, newest>>
    /\ LET ether == FirstEther(prefs'[e]) IN
        up' = IF up[e] # Off THEN up
              ELSE [up EXCEPT ![e] = [ether |-> ether, work |-> work, helper |-> ether = "bridge"]]
    /\ UNCHANGED <<bundle, env, agent, disk, vol>>

Quit(e) ==
    /\ up[e] # Off
    /\ up' = [up EXCEPT ![e] = Off]
    /\ UNCHANGED <<prefs, netmode, newest, bundle, env, agent, disk, vol, supply>>

HelperDies(e) ==
    /\ Spends("faults")
    /\ up[e].helper
    /\ up' = [up EXCEPT ![e].helper = FALSE]
    /\ UNCHANGED <<prefs, netmode, newest, bundle, env, agent, disk, vol>>

EmulatorNext ==
    \E e \in Emulator :
        \/ \E byStack, work \in BOOLEAN : Launch(e, byStack, work)
        \/ Quit(e)
        \/ HelperDies(e)

=============================================================================
