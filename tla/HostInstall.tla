---------------------------- MODULE HostInstall -----------------------------
(***************************************************************************)
(* host/install_bridge.py: it probes the host, decides on a plan or        *)
(* refuses, applies the plan until a step fails, and then, when asked to,  *)
(* writes the host's address into the prefs on a guest's disk image and    *)
(* builds a kit image out of the programs on it.  Any step may fail, the   *)
(* installer may be stopped between two of them, and be run again.         *)
(***************************************************************************)
EXTENDS HostMachine

VARIABLES
    run,        \* the run of the installer
    past        \* history

installVars == <<run, past>>

StepOutcome == {"none", "ok", "failed"}
Unended == -1

Args ==
    [force : BOOLEAN, agent : BOOLEAN, seed : Image \union {"none"}, kit : {"none", "own", "release"}]

\* seen: the emulators its look at the processes showed; choice: the emulator whose prefs it
\* works on; good: no step of the plan has failed; staged: what it has taken for the kit.
RunState ==
    [pc : {"idle", "decide", "intent", "check", "env", "agent", "seed", "seedread", "seedwrite",
           "kit", "pull", "format", "place", "verify", "exit"},
     args : Args, seen : SUBSET Emulator, choice : Emulator, app : BOOLEAN, refused : BOOLEAN,
     good : BOOLEAN, seed : StepOutcome, kit : StepOutcome, staged : SUBSET (App \union {PrefsFile})]

\* The prefs, the recorded backends, local.env, the agent and the guest's disk as the run began;
\* the emulators up since then; whether nothing failed in the run and nothing else changed the
\* machine; the image that was mounted after an hmount of the seed that gave no answer; what
\* hcopy did not write though the run went on; the exit code of the last run; whether it is over
\* and nothing has changed since.
PastState ==
    [prefs : [Emulator -> Prefs], netmode : [Emulator -> Backend \union {"none"}], env : EnvState,
     agent : AgentState, work : DiskState, through : SUBSET Emulator, alone : BOOLEAN, clean : BOOLEAN,
     stale : Image \union {"none"}, lost : SUBSET {"seed", "kit"}, exit : {Unended, 0, 1, 3},
     settled : BOOLEAN]

\* How often each of these may still happen.
Supply ==
    [commands : SUBSET Args, runs : Nat, faults : Nat, crashes : Nat, launches : Nat, doctors : Nat,
     advice : Nat, edits : Nat, jobs : Nat, calls : Nat]

InstallTypeOK == run \in RunState /\ past \in PastState /\ supply \in Supply

Resting ==
    [pc |-> "idle", args |-> [force |-> FALSE, agent |-> FALSE, seed |-> "none", kit |-> "none"],
     seen |-> {}, choice |-> "basilisk", app |-> FALSE, refused |-> FALSE, good |-> TRUE,
     seed |-> "none", kit |-> "none", staged |-> {}]

Fresh ==
    [prefs |-> prefs, netmode |-> netmode, env |-> env, agent |-> agent, work |-> disk["work"],
     through |-> UpNow, alone |-> TRUE, clean |-> TRUE, stale |-> "none", lost |-> {}, exit |-> Unended,
     settled |-> FALSE]

InstallInit == run = Resting /\ past = Fresh

-----------------------------------------------------------------------------
(* probe and decide *)

Found == bundle.place = "known" \/ (bundle.place = "hidden" /\ UpNow # {})

HelperSeen == bundle.helper /\ (Found \/ (bundle.place = "translocated" /\ UpNow # {}))

\* Discovery is asked only where neither a process nor a single prefs file decides.
Choice(seen) ==
    Resolved(seen, IF seen = {} /\ Cardinality(Present) # 1 /\ Found THEN bundle.app ELSE "none")

\* The first look of the probe, at the processes.
Begin(a) ==
    /\ run.pc = "idle" /\ Spends("runs")
    /\ run' = [Resting EXCEPT !.pc = "decide", !.args = a, !.seen = UpNow]
    /\ past' = Fresh
    /\ UNCHANGED hostVars

EtherhelperInUse(c) == LastEther(prefs[c]) = "bridge" /\ HelperSeen /\ ~run.args.force

EmulatorRunning == run.seen # {}

\* Mutants: a running emulator, or a helper, is no reason to refuse.
Refuses_Helper(c) == EtherhelperInUse(c)
Refuses_Running(c) == LastEther(prefs[c]) # "slirp" /\ EmulatorRunning
Refuses(c) == EtherhelperInUse(c) \/ (LastEther(prefs[c]) # "slirp" /\ EmulatorRunning)

\* Mutant: a record that differs from the prefs is left.
SetsBackend_Prefs(c) == LastEther(prefs[c]) # "slirp"
SetsBackend(c) == LastEther(prefs[c]) # "slirp" \/ netmode[c] # "slirp"

\* The other looks of the probe, and the plan.
Decide ==
    /\ run.pc = "decide"
    /\ LET c == Choice(run.seen) IN
        run' = [run EXCEPT !.choice = c, !.app = Found, !.refused = Refuses(c),
                           !.pc = IF Refuses(c) THEN "seed" ELSE IF SetsBackend(c) THEN "intent" ELSE "env"]
    /\ UNCHANGED <<past, machineVars>>

-----------------------------------------------------------------------------
(* apply_plan: the first step that fails is the last *)

\* Whether this step fails.
Meets(fault) ==
    /\ IF fault THEN Spends("faults") ELSE UNCHANGED supply
    /\ past' = [past EXCEPT !.clean = @ /\ ~fault]

\* The same of copies whose failure goes unseen.
Copies(what, fault) ==
    /\ IF fault THEN Spends("faults") ELSE UNCHANGED supply
    /\ past' = [past EXCEPT !.clean = @ /\ ~fault, !.lost = IF fault THEN @ \union {what} ELSE @]

StepEnds(good, next) == run' = [run EXCEPT !.good = good, !.pc = IF good THEN next ELSE "seed"]

Intent(fault) ==
    /\ run.pc = "intent" /\ Meets(fault)
    /\ netmode' = IF fault THEN netmode ELSE [netmode EXCEPT ![run.choice] = "slirp"]
    /\ StepEnds(~fault, "check")
    /\ UNCHANGED <<prefs, newest, up, bundle, env, agent, disk, vol>>

\* The script may be cut short; what counts is what the prefs say afterwards.
Check(fault) ==
    /\ run.pc = "check" /\ Meets(fault)
    /\ IF fault THEN UNCHANGED <<prefs, netmode, newest>> ELSE CheckEtherBackend(run.choice)
    /\ StepEnds(LastEther(prefs'[run.choice]) = "slirp", "env")
    /\ UNCHANGED <<up, bundle, env, agent, disk, vol>>

NoEnv == [present |-> FALSE, addr |-> "none", app |-> "none"]

\* A write that fails may have emptied the file.
WriteEnv(fault) ==
    /\ run.pc = "env" /\ Meets(fault)
    /\ env' \in IF fault THEN {env, NoEnv}
                ELSE {[present |-> TRUE, addr |-> "none", app |-> IF run.app THEN "there" ELSE "none"]}
    /\ StepEnds(~fault, IF run.args.agent THEN "agent" ELSE "seed")
    /\ UNCHANGED <<prefs, netmode, newest, up, bundle, agent, disk, vol>>

\* install_host_service.sh may be cut short after it has written the agent.
InstallAgent(fault) ==
    /\ run.pc = "agent" /\ Meets(fault)
    /\ agent' \in IF fault
                  THEN {[agent EXCEPT !.state = "installed", !.addr = env.addr],
                        [state |-> "installed", deployed |-> TRUE, addr |-> env.addr]}
                  ELSE {[state |-> IF agent.state = "disabled" THEN "disabled" ELSE "loaded",
                         deployed |-> TRUE, addr |-> env.addr]}
    /\ StepEnds(Serving', "seed")
    /\ UNCHANGED <<prefs, netmode, newest, up, bundle, env, disk, vol>>

-----------------------------------------------------------------------------
(* --seed-guest-prefs *)

SeedEnds(outcome) == run' = [run EXCEPT !.seed = outcome, !.pc = "kit"]

SeedBegins(fault) ==
    /\ run.pc = "seed"
    /\ CASE run.args.seed = "none" -> ~fault /\ Meets(FALSE) /\ SeedEnds("none") /\ UNCHANGED vol
         [] run.args.seed # "none" /\ EmulatorRunning ->
                ~fault /\ Meets(FALSE) /\ SeedEnds("failed") /\ UNCHANGED vol
         [] OTHER ->
                /\ Meets(fault)
                /\ IF fault THEN SeedEnds("failed") /\ UNCHANGED vol
                   ELSE run' = [run EXCEPT !.pc = "seedread"] /\ vol' = run.args.seed
    /\ UNCHANGED <<prefs, netmode, newest, up, bundle, env, agent, disk>>

\* An hmount that is cut short, or cannot be run, says nothing, and that is no error: the seed goes
\* on with the image that hfsutils has mounted, its own or another.
SeedUnanswered ==
    /\ run.pc = "seed" /\ run.args.seed # "none" /\ ~EmulatorRunning
    /\ Spends("faults")
    /\ vol' \in {vol, run.args.seed}
    /\ past' = [past EXCEPT !.clean = FALSE, !.stale = vol']
    /\ run' = [run EXCEPT !.pc = "seedread"]
    /\ UNCHANGED <<prefs, netmode, newest, up, bundle, env, agent, disk>>

SeedReads ==
    /\ run.pc = "seedread"
    /\ IF vol = "none" \/ (vol # "none" /\ PrefsFile \notin disk[vol].files)
       THEN SeedEnds("failed") /\ vol' = "none"
       ELSE IF disk[vol].ip = "own" THEN SeedEnds("ok") /\ vol' = "none"
       ELSE run' = [run EXCEPT !.pc = "seedwrite"] /\ UNCHANGED vol
    /\ UNCHANGED <<prefs, netmode, newest, up, bundle, env, agent, disk, supply, past>>

\* Nobody looks whether hcopy has written the file.
SeedWrites(fault) ==
    /\ run.pc = "seedwrite" /\ Copies("seed", fault)
    /\ disk' = IF fault \/ vol = "none" THEN disk ELSE [disk EXCEPT ![vol].ip = "own"]
    /\ SeedEnds("ok") /\ vol' = "none"
    /\ UNCHANGED <<prefs, netmode, newest, up, bundle, env, agent>>

-----------------------------------------------------------------------------
(* --export-guest-kit *)

KitEnds(outcome) == run' = [run EXCEPT !.kit = outcome, !.pc = "exit"]

\* lsof is asked for the processes seen at the start; of one that is gone it says nothing,
\* which counts as a yes.
ImageInUse == \E e \in run.seen : up[e] = Off \/ up[e].work

KitBegins(fault) ==
    /\ run.pc = "kit"
    /\ CASE run.args.kit = "none" -> ~fault /\ Meets(FALSE) /\ KitEnds("none") /\ UNCHANGED vol
         [] run.args.kit # "none" /\ ImageInUse -> ~fault /\ Meets(FALSE) /\ KitEnds("failed") /\ UNCHANGED vol
         [] OTHER ->
                /\ Meets(fault)
                /\ IF fault THEN KitEnds("failed") /\ UNCHANGED vol
                   ELSE run' = [run EXCEPT !.pc = "pull"] /\ vol' = "work"
    /\ UNCHANGED <<prefs, netmode, newest, up, bundle, env, agent, disk>>

Required == {"AppleBridge", "AppleBridgeInstaller"}

Mounted == IF vol = "none" THEN Blank ELSE disk[vol]

Shippable(got) == Required \subseteq got /\ ~Mounted.baked

\* Programs that cannot be copied are missing.
Pull(fault) ==
    /\ run.pc = "pull" /\ Meets(fault)
    /\ \E got \in IF fault THEN SUBSET (Mounted.files \intersect App) ELSE {Mounted.files \intersect App} :
        run' = IF Shippable(got)
               THEN [run EXCEPT !.pc = "format", !.staged = got \union {PrefsFile}]
               ELSE [run EXCEPT !.pc = "exit", !.kit = "failed"]
    /\ vol' = "none"
    /\ UNCHANGED <<prefs, netmode, newest, up, bundle, env, agent, disk>>

\* Mutant: the new image is not mounted; hfsutils stays with the guest's.
Format_Unmounted(fault) ==
    /\ run.pc = "format" /\ Meets(fault)
    /\ disk' = [disk EXCEPT !["kit"] = Blank]
    /\ run' = [run EXCEPT !.pc = "place"] /\ vol' = "work"
    /\ UNCHANGED <<prefs, netmode, newest, up, bundle, env, agent>>

Format(fault) ==
    /\ run.pc = "format" /\ Meets(fault)
    /\ disk' = [disk EXCEPT !["kit"] = Blank]
    /\ IF fault THEN KitEnds("failed") /\ UNCHANGED vol
       ELSE run' = [run EXCEPT !.pc = "place"] /\ vol' = "kit"
    /\ UNCHANGED <<prefs, netmode, newest, up, bundle, env, agent>>

KitAddress == IF run.args.kit = "release" THEN "router" ELSE "own"

With(d, files) ==
    [d EXCEPT !.files = @ \union files, !.ip = IF PrefsFile \in files THEN KitAddress ELSE @]

\* The copies go to the root of the mounted volume, whichever it is.
Place(fault) ==
    /\ run.pc = "place" /\ Copies("kit", fault)
    /\ \E lost \in IF fault THEN SUBSET run.staged \ {{}} ELSE {{}} :
        disk' = CASE vol = "none" -> disk
                  [] vol = "kit"  -> [disk EXCEPT !["kit"] = With(@, run.staged \ lost)]
                  [] vol = "work" -> [disk EXCEPT !["work"].strange = run.staged \ lost # {}]
    /\ run' = [run EXCEPT !.pc = "verify"]
    /\ UNCHANGED <<prefs, netmode, newest, up, bundle, env, agent, vol>>

\* Whether the label, or its first word, is somewhere in the listing.
Listed(label, files) ==
    IF label \in {"AppleBridge", PrefsFile}
    THEN files \intersect {"AppleBridge", "AppleBridgeInstaller", PrefsFile} # {}
    ELSE label \in files

\* Mutant: the listing of the new volume is not looked at.
Verify_Unread ==
    /\ run.pc = "verify"
    /\ KitEnds("ok") /\ vol' = "none"
    /\ UNCHANGED <<prefs, netmode, newest, up, bundle, env, agent, disk, supply, past>>

Verify ==
    /\ run.pc = "verify"
    /\ LET files == IF vol = "work" /\ disk["work"].strange THEN run.staged ELSE Mounted.files IN
        KitEnds(IF \A label \in run.staged : Listed(label, files) THEN "ok" ELSE "failed")
    /\ vol' = "none"
    /\ UNCHANGED <<prefs, netmode, newest, up, bundle, env, agent, disk, supply, past>>

-----------------------------------------------------------------------------

\* Mutant: a plan that stopped half way is a success.
ExitCode_Seedless == IF run.refused THEN 3 ELSE IF run.kit = "failed" THEN 1 ELSE 0
ExitCode ==
    IF run.refused THEN 3
    ELSE IF ~run.good \/ run.seed = "failed" \/ run.kit = "failed" THEN 1 ELSE 0

Exit ==
    /\ run.pc = "exit"
    /\ run' = [run EXCEPT !.pc = "idle"]
    /\ past' = [past EXCEPT !.exit = ExitCode, !.settled = ExitCode = 0]
    /\ UNCHANGED machineVars

\* It is killed; hfsutils keeps its volume.
Killed ==
    /\ run.pc # "idle" /\ Spends("crashes")
    /\ run' = Resting
    /\ past' = Fresh
    /\ UNCHANGED hostVars

InstallNext ==
    \/ \E a \in supply.commands : Begin(a)
    \/ Decide
    \/ \E fault \in BOOLEAN :
        \/ Intent(fault) \/ Check(fault) \/ WriteEnv(fault) \/ InstallAgent(fault)
        \/ SeedBegins(fault) \/ SeedWrites(fault)
        \/ KitBegins(fault) \/ Pull(fault) \/ Format(fault) \/ Place(fault)
    \/ SeedUnanswered \/ SeedReads \/ Verify \/ Exit \/ Killed

\* Something else changes the machine.
Disturbed ==
    past' = [past EXCEPT !.through = {e \in @ : up'[e] # Off}, !.alone = FALSE, !.clean = FALSE,
                         !.settled = FALSE]

=============================================================================
