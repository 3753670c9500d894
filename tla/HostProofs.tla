----------------------------- MODULE HostProofs -----------------------------
(***************************************************************************)
(* The two programs of the host that a guest never sees.  The tools that   *)
(* set the machine up, HostTools: what the doctor, the installers and the  *)
(* guest table promise, from an inductive invariant in three parts.  And   *)
(* the control port, ControlPort: that a caller who gave up in time has    *)
(* nothing executed behind its back, and that what a caller is told is so. *)
(***************************************************************************)
EXTENDS ControlPort, HostTools, FiniteSetTheorems, TLAPS

-----------------------------------------------------------------------------
(* The table *)

\* An instance that has bound its port is that of a loaded agent with this port.
HolderFits ==
    \A p \in Port : holder[p] # "nobody" => agents[holder[p]].state = "loaded" /\ agents[holder[p]].port = p

\* Who is linked has told the name of the agent, or none, and the log says so.
LinkFits ==
    \A p \in Port : link[p] # NoLink =>
        /\ holder[p] # "nobody" /\ link[p].said \in {"", agents[holder[p]].name}
        /\ hello[holder[p]] = IF link[p].said = "" THEN "nameless" ELSE "ok"

\* No agent of another table.
AgentsFit ==
    \A l \in Label : agents[l].state # "none" =>
        \E r \in table : LabelOf(r) = l /\ agents[l].name = r.name /\ agents[l].port = r.port

\* Each row has its agent.
RowsFit(rows) == \A r \in rows : agents[LabelOf(r)] = AgentOf(r)

\* A run over the agents: nothing of a run is left behind once it has ended, and while it works each agent is
\* that of its row, or still in the rows to write, or in the agents to drop.
JobFits ==
    /\ job.fixed => job.pc = "idle" /\ Valid(table) /\ AgentsFit /\ RowsFit(table)
    /\ job.pc = "idle" => job.rows = {} /\ job.drop = {}
    /\ job.pc = "work" /\ job.good =>
        /\ Valid(table) /\ job.rows \subseteq table
        /\ job.drop \cap {LabelOf(r) : r \in table} = {}
        /\ job.all => /\ RowsFit(table \ job.rows)
                      /\ \A l \in Label : agents[l].state # "none" =>
                            l \in job.drop \/ \E r \in table : LabelOf(r) = l

\* A call that is sure of its table has a port from it, and an answer of the guest it asked for.
CallFits ==
    call.sure =>
        /\ Valid(table) /\ AgentsFit /\ job.rows \subseteq table
        /\ call.pc = "sent" => \E r \in table : r.name = call.asked /\ r.port = call.port
        /\ call.pc = "done" => call.said \in {call.asked, ""}

\* The table, its agents and its calls together.
TableInd == TableTypeOK /\ HolderFits /\ LinkFits /\ JobFits /\ CallFits

-----------------------------------------------------------------------------
(* The doctor *)

\* The address the doctor finds in the preferences of the image, when no emulator is up.
GuestIp == IF UpNow = {} /\ PrefsFile \in disk["work"].files THEN disk["work"].ip ELSE "none"

\* What the doctor would see if it saw everything at this moment.
Now ==
    [procs |-> UpNow, helper |-> \E e \in Emulator : up[e].helper, choice |-> Resolved(UpNow, "none"),
     agent |-> agent.state, serving |-> Serving,
     ether |-> LastEther(prefs[Resolved(UpNow, "none")]), intended |-> netmode[Resolved(UpNow, "none")],
     env |-> env, deployed |-> agent.deployed, guests |-> GuestFindings, ip |-> GuestIp]

\* While nothing has moved since the doctor began, what it has looked at so far is what is there now.
DoctorSees ==
    LET l == doctor.look IN
    doctor.quiet =>
        /\ doctor.pc # "idle" =>
            l.procs = Now.procs /\ l.helper = Now.helper /\ l.choice = Now.choice /\ l.ip = "none"
        /\ doctor.pc \in {"files", "image", "mounted"} => l.agent = Now.agent /\ l.serving = Now.serving
        /\ doctor.pc \in {"image", "mounted"} =>
            /\ l.ether = Now.ether /\ l.intended = Now.intended /\ l.env = Now.env
            /\ l.deployed = Now.deployed /\ l.guests = Now.guests
        /\ doctor.pc = "mounted" => vol = "work" /\ UpNow = {}
        /\ doctor.done => doctor.pc = "idle" /\ doctor.report = Interpret(Now)

-----------------------------------------------------------------------------
(* The installer *)

\* The steps that carry the plan of a run out.
Early == {"decide", "intent", "check", "env", "agent"}
\* The steps that follow, which a run enters by its plan carried out or given up.
Late  == {"seed", "seedread", "seedwrite", "kit", "pull", "format", "place", "verify", "exit"}

\* The emulator is converted: its line of preferences and its network mode say so.
Slirped(e) == LastEther(prefs[e]) = "slirp" /\ netmode[e] = "slirp"

\* The plan was carried out.
Carried == run.pc \in Late /\ run.good /\ ~run.refused

\* The flags of a run agree with each other and with how far it has come.
InOrder ==
    /\ run.pc # "idle" => past.exit = Unended /\ ~past.settled
    /\ run.pc \in Early => run.good /\ ~run.refused
    /\ past.clean => past.alone
    /\ past.settled => past.exit = 0

\* What is untouched.
UntouchedYet ==
    past.alone =>
        /\ run.pc \in {"decide", "intent", "check"} => prefs = past.prefs
        /\ run.pc \in {"decide", "intent"} => netmode = past.netmode
        /\ \A e \in Emulator :
            e # run.choice \/ run.refused => prefs[e] = past.prefs[e] /\ netmode[e] = past.netmode[e]
        /\ run.pc = "decide" \/ run.refused => env = past.env /\ agent = past.agent

\* The bundled emulator has its helper and was on the bridge, and nobody forces it off.
Bridged ==
    /\ past.alone /\ ~run.args.force
    /\ bundle.helper /\ bundle.place = "known" /\ LastEther(past.prefs[bundle.app]) = "bridge"

\* Whom a run chose: never the bridged bundle, and among running emulators one that is on slirp.
Chosen ==
    run.pc \in {"intent", "check"} =>
        /\ Bridged => run.choice # bundle.app
        /\ past.alone /\ run.seen # {} => LastEther(prefs[run.choice]) = "slirp"

\* What each step of a run that carried its plan out has established for good.
Converts ==
    /\ run.pc = "check" => netmode[run.choice] = "slirp"
    /\ run.pc \in {"env", "agent"} \/ Carried \/ past.exit = 0 => Slirped(run.choice)
    /\ run.pc = "agent" \/ Carried => env.present /\ env.addr = "none" /\ env.app # "moved"
    /\ Carried /\ run.args.agent => Serving

\* A clean run with no emulator up, over preferences with one line, is never refused and fails nowhere.
Rerun ==
    (/\ past.clean /\ run.seen = {} /\ (run.args.force \/ ~bundle.helper) /\ run.pc \in Late
     /\ OneLine(past.prefs[run.choice]) /\ agent.state # "disabled")
    => run.good /\ ~run.refused

\* An emulator that was up all through the run is one that it saw, and has no work disk while the run works on it.
Through ==
    /\ \A e \in past.through : up[e] # Off
    /\ run.pc # "idle" => past.through \subseteq run.seen
    /\ run.pc \in {"seedread", "seedwrite"} => run.seen = {}
    /\ run.pc \in {"pull", "format", "place", "verify"} => \A e \in past.through : ~up[e].work

\* What a success has left stays, until something changes it.
Settled == past.settled => ExitZeroIsTruth /\ env.app # "moved"

\* The installer, in order.
InstallInd == InOrder /\ UntouchedYet /\ BridgedHostIsKept /\ Chosen /\ Converts /\ Rerun /\ Settled

\* The disks: one program mounts at a time, what is mounted is what the step works on, and what it publishes.
Disk ==
    /\ ~(InstallerMounts /\ DoctorMounts)
    /\ run.pc \in Early \union {"seed"} => past.stale = "none"
    /\ run.pc \in {"seedread", "seedwrite"} => run.args.seed # "none" /\ vol \in {run.args.seed, past.stale}
    /\ run.pc = "seedwrite" => vol # "none"
    /\ run.pc = "pull" => vol = "work"
    /\ run.pc \in {"place", "verify"} => vol = "kit"
    /\ run.pc \in {"format", "place", "verify"} =>
        Required \subseteq run.staged /\ ~past.work.baked
    /\ run.pc = "place" => disk["kit"] = Blank
    /\ run.pc = "verify" /\ "kit" \notin past.lost => run.staged \subseteq disk["kit"].files
    /\ run.pc = "verify" /\ run.args.kit = "release" => disk["kit"].ip \in {"none", "router"}
    /\ disk["work"].baked = past.work.baked

\* The disks and the three promises about them.
DiskInd == Disk /\ TheirDiskIsKept /\ SeedIsSo /\ KitCanBePublished

-----------------------------------------------------------------------------
(* Types: the machine *)

\* What is read of a prefs file.
LEMMA EtherIs ==
    /\ \A p \in Prefs : /\ FirstEther(p) \in Backend \union {"none"} /\ LastEther(p) \in Backend \union {"none"}
                        /\ OneLine(p) => FirstEther(p) = LastEther(p)
    /\ FirstEther(NoFile) = "none" /\ LastEther(NoFile) = "none"
    /\ \A b \in Backend : /\ <<b>> \in Prefs /\ <<b>> # NoFile /\ OneLine(<<b>>)
                          /\ FirstEther(<<b>>) = b /\ LastEther(<<b>>) = b
  <1>1. FirstEther(NoFile) = "none" /\ LastEther(NoFile) = "none"
    BY DEF FirstEther, LastEther
  <1>2. ASSUME NEW p \in Prefs
        PROVE  /\ FirstEther(p) \in Backend \union {"none"} /\ LastEther(p) \in Backend \union {"none"}
               /\ OneLine(p) => FirstEther(p) = LastEther(p)
    <2>1. CASE p = NoFile
      BY <1>1, <2>1 DEF OneLine
    <2>2. CASE p # NoFile
      <3>1. PICK n \in 0..2 : p \in [1..n -> Backend]
        BY <2>2 DEF Prefs
      <3>2. Len(p) = n /\ p \in Seq(Backend) /\ (p = <<>> => n = 0)
        BY <3>1
      <3>3. CASE p = <<>>
        BY <3>3 DEF FirstEther, LastEther, OneLine
      <3>4. CASE p # <<>>
        <4>1. n \in 1..2
          BY <3>1, <3>2, <3>4
        <4>2. FirstEther(p) = p[1] /\ LastEther(p) = p[n] /\ p[1] \in Backend /\ p[n] \in Backend
          BY <2>2, <3>1, <3>2, <3>4, <4>1 DEF FirstEther, LastEther
        <4> QED
          BY <3>2, <4>1, <4>2 DEF OneLine
      <3> QED
        BY <3>3, <3>4
    <2> QED
      BY <2>1, <2>2
  <1>3. ASSUME NEW b \in Backend
        PROVE  /\ <<b>> \in Prefs /\ <<b>> # NoFile /\ OneLine(<<b>>)
               /\ FirstEther(<<b>>) = b /\ LastEther(<<b>>) = b
    <2>1. <<b>> # NoFile
      BY <1>3 DEF Backend, NoFile
    <2>2. <<b>> \in [1..1 -> Backend]
      BY <1>3
    <2>3. <<b>> \in Prefs
      BY <2>2 DEF Prefs
    <2> QED
      BY <2>1, <2>3 DEF OneLine, FirstEther, LastEther
  <1> QED
    BY <1>1, <1>2, <1>3

\* The emulator meant is one.
LEMMA ResolvedIs ==
    ASSUME NEW found \in SUBSET Emulator, NEW named \in Emulator \union {"none"}, newest \in Emulator
    PROVE  /\ Resolved(found, named) \in Emulator
           /\ \A e \in Emulator : found = {e} => Resolved(found, named) = e
  <1>1. found # {} => Resolved(found, named) = IF "sheepshaver" \in found THEN "sheepshaver" ELSE "basilisk"
    BY DEF Resolved
  <1>2. found = {} /\ named # "none" => Resolved(found, named) = named
    BY DEF Resolved
  <1>3. found = {} /\ named = "none" /\ Cardinality(Present) # 1 =>
            Resolved(found, named) = IF Present = {} THEN "basilisk" ELSE newest
    BY DEF Resolved
  <1>4. found = {} /\ named = "none" /\ Cardinality(Present) = 1 => Resolved(found, named) \in Emulator
    <2> SUFFICES ASSUME found = {}, named = "none", Cardinality(Present) = 1
                 PROVE  Resolved(found, named) \in Emulator
      OBVIOUS
    <2>1. Resolved(found, named) = CHOOSE e \in Present : TRUE
      BY DEF Resolved
    <2>2. Present # {}
      BY FS_EmptySet
    <2>3. (CHOOSE e \in Present : TRUE) \in Present
      BY <2>2
    <2> QED
      BY <2>1, <2>3 DEF Present
  <1> QED
    BY <1>1, <1>2, <1>3, <1>4 DEF Emulator

\* The script changes the files of one emulator, and leaves a record in force.
LEMMA CheckIs ==
    ASSUME MachineTypeOK, NEW e \in Emulator, CheckEtherBackend(e)
    PROVE  /\ prefs' \in [Emulator -> Prefs] /\ netmode' \in [Emulator -> Backend \union {"none"}] /\ newest' \in Emulator
           /\ \A x \in Emulator : x # e => prefs'[x] = prefs[x] /\ netmode'[x] = netmode[x]
           /\ netmode[e] # "none" =>
                /\ netmode' = netmode
                /\ prefs'[e] = IF prefs[e] = NoFile \/ FirstEther(prefs[e]) = netmode[e] THEN prefs[e] ELSE <<netmode[e]>>
           /\ netmode[e] = "none" => prefs' = prefs
  <1>0. /\ prefs \in [Emulator -> Prefs] /\ netmode \in [Emulator -> Backend \union {"none"}] /\ newest \in Emulator
        /\ FirstEther(prefs[e]) \in Backend \union {"none"}
    BY EtherIs DEF MachineTypeOK
  <1>1. CASE prefs[e] = NoFile
    BY <1>0, <1>1 DEF CheckEtherBackend
  <1>2. CASE prefs[e] # NoFile /\ netmode[e] = "none"
    <2>1. netmode' = [netmode EXCEPT ![e] = FirstEther(prefs[e])] /\ prefs' = prefs /\ newest' = newest
      BY <1>2 DEF CheckEtherBackend
    <2> QED
      BY <1>0, <1>2, <2>1
  <1>3. CASE prefs[e] # NoFile /\ netmode[e] # "none" /\ netmode[e] = FirstEther(prefs[e])
    BY <1>0, <1>3 DEF CheckEtherBackend
  <1>4. CASE prefs[e] # NoFile /\ netmode[e] # "none" /\ netmode[e] # FirstEther(prefs[e])
    <2>1. prefs' = [prefs EXCEPT ![e] = <<netmode[e]>>] /\ netmode' = netmode /\ newest' = e
      BY <1>4 DEF CheckEtherBackend
    <2>2. <<netmode[e]>> \in Prefs
      BY <1>0, <1>4, EtherIs
    <2> QED
      BY <1>0, <1>4, <2>1, <2>2
  <1> QED
    BY <1>1, <1>2, <1>3, <1>4

-----------------------------------------------------------------------------
(* Types: what every step of the installer does *)

\* What is spent is there, and is a number still.
LEMMA SpendsIs ==
    ASSUME supply \in Supply,
           NEW what \in {"runs", "faults", "crashes", "launches", "doctors", "advice", "edits", "jobs", "calls"},
           Spends(what)
    PROVE  supply' \in Supply
  <1>1. CASE what = "runs"
    BY <1>1 DEF Spends, Supply
  <1>2. CASE what = "faults"
    BY <1>2 DEF Spends, Supply
  <1>3. CASE what = "crashes"
    BY <1>3 DEF Spends, Supply
  <1>4. CASE what = "launches"
    BY <1>4 DEF Spends, Supply
  <1>5. CASE what = "doctors"
    BY <1>5 DEF Spends, Supply
  <1>6. CASE what = "advice"
    BY <1>6 DEF Spends, Supply
  <1>7. CASE what = "edits"
    BY <1>7 DEF Spends, Supply
  <1>8. CASE what = "jobs"
    BY <1>8 DEF Spends, Supply
  <1>9. CASE what = "calls"
    BY <1>9 DEF Spends, Supply
  <1> QED
    BY <1>1, <1>2, <1>3, <1>4, <1>5, <1>6, <1>7, <1>8, <1>9

\* The history of a run goes on, and is clean only if it was, whatever went unseen.
PastRest(clean) ==
    /\ past' \in PastState
    /\ past'.prefs = past.prefs /\ past'.netmode = past.netmode /\ past'.work = past.work
    /\ past'.env = past.env /\ past'.agent = past.agent
    /\ past'.through = past.through /\ past'.alone = past.alone /\ past'.exit = past.exit
    /\ past'.settled = past.settled /\ past'.clean = clean

\* And nothing new went unseen.
PastKept(clean) == PastRest(clean) /\ past'.stale = past.stale /\ past'.lost = past.lost

\* A step that fails has spent a fault, and the run is not clean any more.
LEMMA MeetsIs ==
    ASSUME InstallTypeOK, NEW fault \in BOOLEAN, Meets(fault)
    PROVE  supply' \in Supply /\ PastKept(past.clean /\ ~fault)
  <1>1. supply' \in Supply
    BY SpendsIs DEF Meets, InstallTypeOK
  <1>2. past' = [past EXCEPT !.clean = past.clean /\ ~fault] /\ past \in PastState
    BY DEF Meets, InstallTypeOK
  <1>3. PICK c \in BOOLEAN : c = (past.clean /\ ~fault)
    OBVIOUS
  <1>4. past' = [past EXCEPT !.clean = c]
    BY <1>2, <1>3
  <1>5. PastKept(c)
    BY <1>2, <1>4 DEF PastKept, PastRest, PastState
  <1> QED
    BY <1>1, <1>3, <1>5

\* So has a copy that fails, and it is not there.
LEMMA CopiesIs ==
    ASSUME InstallTypeOK, NEW what \in {"seed", "kit"}, NEW fault \in BOOLEAN, Copies(what, fault)
    PROVE  /\ supply' \in Supply /\ PastRest(past.clean /\ ~fault) /\ past'.stale = past.stale
           /\ past'.lost = IF fault THEN past.lost \union {what} ELSE past.lost
  <1>1. supply' \in Supply
    BY SpendsIs DEF Copies, InstallTypeOK
  <1>2. past \in PastState
    BY DEF InstallTypeOK
  <1>3. PICK c \in BOOLEAN : c = (past.clean /\ ~fault)
    OBVIOUS
  <1>4. PICK l \in SUBSET {"seed", "kit"} : l = IF fault THEN past.lost \union {what} ELSE past.lost
    BY <1>2 DEF PastState
  <1>5. past' = [past EXCEPT !.clean = c, !.lost = l]
    BY <1>3, <1>4 DEF Copies
  <1>6. PastRest(c) /\ past'.stale = past.stale /\ past'.lost = l
    BY <1>2, <1>5 DEF PastRest, PastState
  <1> QED
    BY <1>1, <1>3, <1>4, <1>6

\* The run goes on at another step.
RunKept ==
    /\ run' \in RunState
    /\ run'.args = run.args /\ run'.seen = run.seen /\ run'.choice = run.choice /\ run'.app = run.app
    /\ run'.refused = run.refused

\* The end of a step of the plan.
LEMMA StepEndsIs ==
    ASSUME InstallTypeOK, NEW good \in BOOLEAN, NEW next \in {"check", "env", "agent", "seed"}, StepEnds(good, next)
    PROVE  /\ RunKept /\ run'.good = good /\ run'.pc = (IF good THEN next ELSE "seed")
           /\ run'.seed = run.seed /\ run'.kit = run.kit /\ run'.staged = run.staged
  BY DEF StepEnds, InstallTypeOK, RunState, RunKept

\* The end of the seeding.
LEMMA SeedEndsIs ==
    ASSUME InstallTypeOK, NEW outcome \in StepOutcome, SeedEnds(outcome)
    PROVE  /\ RunKept /\ run'.good = run.good /\ run'.pc = "kit"
           /\ run'.seed = outcome /\ run'.kit = run.kit /\ run'.staged = run.staged
  BY DEF SeedEnds, InstallTypeOK, RunState, RunKept

\* The end of the kit.
LEMMA KitEndsIs ==
    ASSUME InstallTypeOK, NEW outcome \in StepOutcome, KitEnds(outcome)
    PROVE  /\ RunKept /\ run'.good = run.good /\ run'.pc = "exit"
           /\ run'.seed = run.seed /\ run'.kit = outcome /\ run'.staged = run.staged
  BY DEF KitEnds, InstallTypeOK, RunState, RunKept

\* A run that has just begun, or nothing that is one.
LEMMA FreshIs ==
    ASSUME MachineTypeOK
    PROVE  Fresh \in PastState /\ Resting \in RunState
  <1>1. UpNow \subseteq Emulator /\ disk["work"] \in DiskState
    BY DEF UpNow, MachineTypeOK, Image
  <1> QED
    BY <1>1 DEF Fresh, PastState, MachineTypeOK, Resting, RunState, Args, StepOutcome, Unended, Emulator

\* A look at the processes begins a run.
LEMMA BeginIs ==
    ASSUME HostTypeOK, NEW a \in supply.commands, Begin(a)
    PROVE  /\ MachineTypeOK' /\ InstallTypeOK' /\ UNCHANGED hostVars /\ past' = Fresh
           /\ run'.pc = "decide" /\ run'.args = a /\ run'.seen = UpNow /\ run'.choice = "basilisk"
           /\ run'.refused = FALSE /\ run'.good = TRUE /\ run'.staged = {} /\ run'.kit = "none"
  <1>1. a \in Args /\ UpNow \in SUBSET Emulator /\ supply' \in Supply /\ UNCHANGED hostVars
    BY SpendsIs DEF HostTypeOK, InstallTypeOK, Supply, Begin, UpNow
  <1>2. past' = Fresh /\ Fresh \in PastState /\ Resting \in RunState
    BY FreshIs DEF HostTypeOK, Begin
  <1>3. run' = [Resting EXCEPT !.pc = "decide", !.args = a, !.seen = UpNow]
    BY DEF Begin
  <1>4. run' \in RunState
    BY <1>1, <1>2, <1>3 DEF RunState
  <1> QED
    BY <1>1, <1>2, <1>3, <1>4 DEF HostTypeOK, MachineTypeOK, hostVars, InstallTypeOK, Resting

\* The decision.
LEMMA DecideIs ==
    ASSUME HostTypeOK, Decide
    PROVE  /\ MachineTypeOK' /\ InstallTypeOK' /\ UNCHANGED <<past, machineVars>> /\ run.pc = "decide"
           /\ run'.args = run.args /\ run'.seen = run.seen /\ run'.good = run.good
           /\ run'.kit = run.kit /\ run'.staged = run.staged /\ run'.choice \in Emulator
           /\ run'.refused = Refuses(run'.choice)
           /\ run'.pc = IF run'.refused THEN "seed" ELSE IF SetsBackend(run'.choice) THEN "intent" ELSE "env"
  <1> DEFINE c == Choice(run.seen)
  <1>1. run \in RunState /\ past \in PastState /\ supply \in Supply /\ bundle \in Bundle /\ newest \in Emulator
    BY DEF HostTypeOK, InstallTypeOK, MachineTypeOK
  <1>2. c \in Emulator
    BY <1>1, ResolvedIs DEF Choice, RunState, Bundle
  <1>3. Found \in BOOLEAN /\ Refuses(c) \in BOOLEAN
    BY DEF Found, Refuses, EtherhelperInUse
  <1>4. run' = [run EXCEPT !.choice = c, !.app = Found, !.refused = Refuses(c),
                           !.pc = IF Refuses(c) THEN "seed" ELSE IF SetsBackend(c) THEN "intent" ELSE "env"]
    BY DEF Decide
  <1> HIDE DEF c
  <1>5. /\ run' \in RunState /\ run'.choice = c /\ run'.refused = Refuses(c)
        /\ run'.pc = IF Refuses(c) THEN "seed" ELSE IF SetsBackend(c) THEN "intent" ELSE "env"
        /\ run'.args = run.args /\ run'.seen = run.seen /\ run'.good = run.good
        /\ run'.kit = run.kit /\ run'.staged = run.staged
    BY <1>1, <1>2, <1>3, <1>4 DEF RunState
  <1>6. UNCHANGED <<past, machineVars>> /\ run.pc = "decide"
    BY DEF Decide
  <1> QED
    BY <1>1, <1>2, <1>5, <1>6 DEF HostTypeOK, MachineTypeOK, InstallTypeOK, machineVars, hostVars

\* The record of the backend.
LEMMA IntentIs ==
    ASSUME HostTypeOK, NEW fault \in BOOLEAN, Intent(fault)
    PROVE  /\ MachineTypeOK' /\ InstallTypeOK' /\ PastKept(past.clean /\ ~fault) /\ RunKept
           /\ run.pc = "intent" /\ run'.pc = (IF fault THEN "seed" ELSE "check") /\ run'.good = ~fault
           /\ run'.kit = run.kit /\ run'.staged = run.staged
           /\ \A e \in Emulator : netmode'[e] = IF e = run.choice /\ ~fault THEN "slirp" ELSE netmode[e]
           /\ UNCHANGED <<prefs, newest, up, bundle, env, agent, disk, vol>>
  <1>1. run \in RunState /\ InstallTypeOK /\ MachineTypeOK /\ run.choice \in Emulator
    BY DEF HostTypeOK, InstallTypeOK, RunState
  <1>2. supply' \in Supply /\ PastKept(past.clean /\ ~fault)
    BY <1>1, MeetsIs DEF Intent
  <1>3. /\ RunKept /\ run'.good = ~fault /\ run'.pc = (IF fault THEN "seed" ELSE "check")
        /\ run'.kit = run.kit /\ run'.staged = run.staged
    BY <1>1, StepEndsIs DEF Intent
  <1>4. /\ netmode' = IF fault THEN netmode ELSE [netmode EXCEPT ![run.choice] = "slirp"]
        /\ UNCHANGED <<prefs, newest, up, bundle, env, agent, disk, vol>> /\ run.pc = "intent"
    BY DEF Intent
  <1> QED
    BY <1>1, <1>2, <1>3, <1>4 DEF MachineTypeOK, InstallTypeOK, Backend, PastKept, PastRest, RunKept

\* The script, for the emulator of the plan.
LEMMA CheckStepIs ==
    ASSUME HostTypeOK, NEW fault \in BOOLEAN, Check(fault)
    PROVE  /\ MachineTypeOK' /\ InstallTypeOK' /\ PastKept(past.clean /\ ~fault) /\ RunKept
           /\ run.pc = "check" /\ run'.good = (LastEther(prefs'[run.choice]) = "slirp")
           /\ run'.pc = (IF run'.good THEN "env" ELSE "seed")
           /\ run'.kit = run.kit /\ run'.staged = run.staged
           /\ IF fault THEN UNCHANGED <<prefs, netmode, newest>> ELSE CheckEtherBackend(run.choice)
           /\ UNCHANGED <<up, bundle, env, agent, disk, vol>>
  <1>1. run \in RunState /\ InstallTypeOK /\ MachineTypeOK /\ run.choice \in Emulator
    BY DEF HostTypeOK, InstallTypeOK, RunState
  <1>2. supply' \in Supply /\ PastKept(past.clean /\ ~fault)
    BY <1>1, MeetsIs DEF Check
  <1>3. PICK good \in BOOLEAN : good = (LastEther(prefs'[run.choice]) = "slirp")
    OBVIOUS
  <1>4. StepEnds(good, "env")
    BY <1>3 DEF Check, StepEnds
  <1>5. /\ RunKept /\ run'.good = good /\ run'.pc = (IF good THEN "env" ELSE "seed")
        /\ run'.kit = run.kit /\ run'.staged = run.staged
    BY <1>1, <1>4, StepEndsIs
  <1>6. /\ IF fault THEN UNCHANGED <<prefs, netmode, newest>> ELSE CheckEtherBackend(run.choice)
        /\ UNCHANGED <<up, bundle, env, agent, disk, vol>> /\ run.pc = "check"
    BY DEF Check
  <1>7. prefs' \in [Emulator -> Prefs] /\ netmode' \in [Emulator -> Backend \union {"none"}] /\ newest' \in Emulator
    <2>1. CASE fault
      BY <1>1, <1>6, <2>1 DEF MachineTypeOK
    <2>2. CASE ~fault
      BY <1>1, <1>6, <2>2, CheckIs
    <2> QED
      BY <2>1, <2>2
  <1>8. MachineTypeOK'
    BY <1>1, <1>6, <1>7 DEF MachineTypeOK
  <1>9. InstallTypeOK'
    BY <1>2, <1>5 DEF InstallTypeOK, PastKept, PastRest, RunKept
  <1> QED
    BY <1>2, <1>3, <1>5, <1>6, <1>8, <1>9

\* The file local.env.
LEMMA WriteEnvIs ==
    ASSUME HostTypeOK, NEW fault \in BOOLEAN, WriteEnv(fault)
    PROVE  /\ MachineTypeOK' /\ InstallTypeOK' /\ PastKept(past.clean /\ ~fault) /\ RunKept
           /\ run.pc = "env" /\ run'.good = ~fault
           /\ run'.pc = (IF fault \/ ~run.args.agent THEN "seed" ELSE "agent")
           /\ run'.kit = run.kit /\ run'.staged = run.staged
           /\ ~fault => env'.present /\ env'.addr = "none" /\ env'.app # "moved"
           /\ UNCHANGED <<prefs, netmode, newest, up, bundle, agent, disk, vol>>
  <1>1. run \in RunState /\ InstallTypeOK /\ MachineTypeOK /\ env \in EnvState /\ run.args.agent \in BOOLEAN
    BY DEF HostTypeOK, InstallTypeOK, MachineTypeOK, RunState, Args
  <1>2. supply' \in Supply /\ PastKept(past.clean /\ ~fault)
    BY <1>1, MeetsIs DEF WriteEnv
  <1>3. /\ RunKept /\ run'.good = ~fault /\ run'.pc = (IF fault \/ ~run.args.agent THEN "seed" ELSE "agent")
        /\ run'.kit = run.kit /\ run'.staged = run.staged
    BY <1>1, StepEndsIs DEF WriteEnv
  <1>4. /\ env' \in EnvState
        /\ ~fault => env'.present /\ env'.addr = "none" /\ env'.app # "moved"
    <2>1. PICK b \in BOOLEAN : b
      BY Zenon
    <2>2. PICK c \in BOOLEAN : ~c
      BY Zenon
    <2>3. CASE fault
      <3>1. env' \in {env, [present |-> c, addr |-> "none", app |-> "none"]}
        BY <2>2, <2>3 DEF WriteEnv, NoEnv
      <3> QED
        BY <1>1, <2>3, <3>1 DEF EnvState, Address
    <2>4. CASE ~fault
      <3>1. env' = [present |-> b, addr |-> "none", app |-> IF run.app THEN "there" ELSE "none"]
        BY <2>1, <2>4 DEF WriteEnv
      <3> QED
        BY <2>1, <2>4, <3>1 DEF EnvState, Address
    <2> QED
      BY <2>3, <2>4
  <1>5. UNCHANGED <<prefs, netmode, newest, up, bundle, agent, disk, vol>> /\ run.pc = "env"
    BY DEF WriteEnv
  <1>6. MachineTypeOK'
    BY <1>1, <1>4, <1>5 DEF MachineTypeOK
  <1>7. InstallTypeOK'
    BY <1>2, <1>3 DEF InstallTypeOK, PastKept, PastRest, RunKept
  <1> QED
    BY <1>2, <1>3, <1>4, <1>5, <1>6, <1>7

\* The agent.
LEMMA InstallAgentIs ==
    ASSUME HostTypeOK, NEW fault \in BOOLEAN, InstallAgent(fault)
    PROVE  /\ MachineTypeOK' /\ InstallTypeOK' /\ PastKept(past.clean /\ ~fault) /\ RunKept
           /\ run.pc = "agent" /\ run'.good = Serving' /\ run'.pc = "seed"
           /\ run'.kit = run.kit /\ run'.staged = run.staged
           /\ ~fault => /\ agent'.state = IF agent.state = "disabled" THEN "disabled" ELSE "loaded"
                        /\ agent'.deployed /\ agent'.addr = env.addr
           /\ UNCHANGED <<prefs, netmode, newest, up, bundle, env, disk, vol>>
  <1>1. run \in RunState /\ InstallTypeOK /\ MachineTypeOK /\ env \in EnvState /\ agent \in AgentState
    BY DEF HostTypeOK, InstallTypeOK, MachineTypeOK
  <1>2. supply' \in Supply /\ PastKept(past.clean /\ ~fault)
    BY <1>1, MeetsIs DEF InstallAgent
  <1>3. PICK good \in BOOLEAN : good = Serving'
    BY DEF Serving
  <1>4. StepEnds(good, "seed")
    BY <1>3 DEF InstallAgent, StepEnds
  <1>5. /\ RunKept /\ run'.good = good /\ run'.pc = "seed"
        /\ run'.kit = run.kit /\ run'.staged = run.staged
    BY <1>1, <1>4, StepEndsIs
  <1>6. /\ agent' \in AgentState
        /\ ~fault => /\ agent'.state = IF agent.state = "disabled" THEN "disabled" ELSE "loaded"
                     /\ agent'.deployed /\ agent'.addr = env.addr
    <2>1. env.addr \in Address /\ agent.state \in {"absent", "hand", "installed", "loaded", "disabled"}
      BY <1>1 DEF EnvState, AgentState
    <2>2. PICK b \in BOOLEAN : b
      BY Zenon
    <2>3. CASE fault
      <3>1. agent' \in {[agent EXCEPT !.state = "installed", !.addr = env.addr],
                        [state |-> "installed", deployed |-> b, addr |-> env.addr]}
        BY <2>2, <2>3 DEF InstallAgent
      <3>2. [agent EXCEPT !.state = "installed", !.addr = env.addr] \in AgentState
        BY <1>1, <2>1 DEF AgentState
      <3>3. [state |-> "installed", deployed |-> b, addr |-> env.addr] \in AgentState
        BY <2>1, <2>2 DEF AgentState
      <3> QED
        BY <2>3, <3>1, <3>2, <3>3
    <2>4. CASE ~fault
      <3>1. agent' = [state |-> IF agent.state = "disabled" THEN "disabled" ELSE "loaded",
                      deployed |-> b, addr |-> env.addr]
        BY <2>2, <2>4 DEF InstallAgent
      <3> QED
        BY <2>1, <2>2, <3>1 DEF AgentState
    <2> QED
      BY <2>3, <2>4
  <1>7. UNCHANGED <<prefs, netmode, newest, up, bundle, env, disk, vol>> /\ run.pc = "agent"
    BY DEF InstallAgent
  <1>8. MachineTypeOK'
    BY <1>1, <1>6, <1>7 DEF MachineTypeOK
  <1>9. InstallTypeOK'
    BY <1>2, <1>5 DEF InstallTypeOK, PastKept, PastRest, RunKept
  <1> QED
    BY <1>2, <1>3, <1>5, <1>6, <1>7, <1>8, <1>9

-----------------------------------------------------------------------------
(* Types: the disk images *)

\* The machine but for the images.
ImagesOnly == UNCHANGED <<prefs, netmode, newest, up, bundle, env, agent>>

\* A volume is mounted for the seed, or it is over.
LEMMA SeedBeginsIs ==
    ASSUME HostTypeOK, NEW fault \in BOOLEAN, SeedBegins(fault)
    PROVE  /\ MachineTypeOK' /\ InstallTypeOK' /\ ImagesOnly /\ disk' = disk /\ RunKept
           /\ \E f \in BOOLEAN : PastKept(past.clean /\ ~f)
           /\ run.pc = "seed" /\ run'.good = run.good /\ run'.kit = run.kit /\ run'.staged = run.staged
           /\ \/ run'.pc = "kit" /\ run'.seed # "ok" /\ vol' = vol
              \/ run'.pc = "seedread" /\ vol' = run.args.seed /\ run.args.seed # "none" /\ run.seen = {}
  <1>1. run \in RunState /\ InstallTypeOK /\ MachineTypeOK /\ vol \in Image \union {"none"}
        /\ run.args.seed \in Image \union {"none"}
    BY DEF HostTypeOK, InstallTypeOK, MachineTypeOK, RunState, Args
  <1>2. ImagesOnly /\ disk' = disk /\ run.pc = "seed"
    BY DEF SeedBegins, ImagesOnly
  <1>3. PICK f \in BOOLEAN : Meets(f)
    BY DEF SeedBegins
  <1>4. supply' \in Supply /\ PastKept(past.clean /\ ~f)
    BY <1>1, <1>3, MeetsIs
  <1>5. \/ vol' = vol /\ \E o \in StepOutcome \ {"ok"} : SeedEnds(o)
        \/ /\ run' = [run EXCEPT !.pc = "seedread"] /\ vol' = run.args.seed
           /\ run.args.seed # "none" /\ run.seen = {}
    BY DEF SeedBegins, StepOutcome, EmulatorRunning
  <1>6. /\ RunKept /\ run'.good = run.good /\ run'.kit = run.kit /\ run'.staged = run.staged
        /\ vol' \in Image \union {"none"}
        /\ \/ run'.pc = "kit" /\ run'.seed # "ok" /\ vol' = vol
           \/ run'.pc = "seedread" /\ vol' = run.args.seed /\ run.args.seed # "none" /\ run.seen = {}
    <2>1. CASE vol' = vol /\ \E o \in StepOutcome \ {"ok"} : SeedEnds(o)
      BY <1>1, <2>1, SeedEndsIs
    <2>2. CASE /\ run' = [run EXCEPT !.pc = "seedread"] /\ vol' = run.args.seed
               /\ run.args.seed # "none" /\ run.seen = {}
      BY <1>1, <2>2 DEF RunState, RunKept
    <2> QED
      BY <1>5, <2>1, <2>2
  <1>7. MachineTypeOK'
    BY <1>1, <1>2, <1>6 DEF MachineTypeOK, ImagesOnly
  <1>8. InstallTypeOK'
    BY <1>4, <1>6 DEF InstallTypeOK, PastKept, PastRest, RunKept
  <1> QED
    BY <1>2, <1>4, <1>6, <1>7, <1>8

\* Nobody knows which volume is mounted.
LEMMA SeedUnansweredIs ==
    ASSUME HostTypeOK, SeedUnanswered
    PROVE  /\ MachineTypeOK' /\ InstallTypeOK' /\ ImagesOnly /\ disk' = disk /\ RunKept
           /\ \E f \in BOOLEAN : PastRest(past.clean /\ ~f)
           /\ run.pc = "seed" /\ run'.good = run.good /\ run'.kit = run.kit /\ run'.staged = run.staged
           /\ run'.pc = "seedread" /\ run.args.seed # "none" /\ run.seen = {}
           /\ past'.stale = vol' /\ past'.lost = past.lost
  <1>1. run \in RunState /\ InstallTypeOK /\ MachineTypeOK /\ vol \in Image \union {"none"}
        /\ run.args.seed \in Image \union {"none"} /\ past \in PastState
    BY DEF HostTypeOK, InstallTypeOK, MachineTypeOK, RunState, Args
  <1>2. /\ ImagesOnly /\ disk' = disk /\ run.pc = "seed" /\ run.args.seed # "none" /\ run.seen = {}
        /\ vol' \in {vol, run.args.seed} /\ run' = [run EXCEPT !.pc = "seedread"]
    BY DEF SeedUnanswered, ImagesOnly, EmulatorRunning
  <1>3. supply' \in Supply
    BY <1>1, SpendsIs DEF SeedUnanswered, InstallTypeOK
  <1>4. PICK c \in BOOLEAN : ~c
    BY Zenon
  <1>5. PICK v \in Image \union {"none"} : v = vol'
    BY <1>1, <1>2
  <1>6. past' = [past EXCEPT !.clean = c, !.stale = v]
    BY <1>4, <1>5 DEF SeedUnanswered
  <1>7. PastRest(c) /\ past'.stale = v /\ past'.lost = past.lost
    BY <1>1, <1>6 DEF PastRest, PastState
  <1>8. PICK f \in BOOLEAN : f
    BY Zenon
  <1>9. PastRest(past.clean /\ ~f)
    <2>1. c = (past.clean /\ ~f)
      BY <1>4, <1>8
    <2> QED
      BY <1>7, <2>1
  <1>10. RunKept /\ run'.good = run.good /\ run'.kit = run.kit /\ run'.staged = run.staged /\ run'.pc = "seedread"
    BY <1>1, <1>2 DEF RunState, RunKept
  <1>11. MachineTypeOK'
    BY <1>1, <1>2 DEF MachineTypeOK, ImagesOnly
  <1>12. InstallTypeOK'
    BY <1>3, <1>7, <1>10 DEF InstallTypeOK, PastRest, RunKept
  <1> QED
    BY <1>2, <1>5, <1>7, <1>9, <1>10, <1>11, <1>12

\* The prefs on it are read.
LEMMA SeedReadsIs ==
    ASSUME HostTypeOK, SeedReads
    PROVE  /\ MachineTypeOK' /\ InstallTypeOK' /\ ImagesOnly /\ disk' = disk /\ RunKept /\ past' = past
           /\ run.pc = "seedread" /\ run'.good = run.good /\ run'.kit = run.kit /\ run'.staged = run.staged
           /\ \/ run'.pc = "kit" /\ (run'.seed = "ok" => vol # "none" /\ disk[vol].ip = "own")
              \/ run'.pc = "seedwrite" /\ vol' = vol /\ vol # "none"
  <1>1. run \in RunState /\ InstallTypeOK /\ MachineTypeOK /\ vol \in Image \union {"none"}
    BY DEF HostTypeOK, InstallTypeOK, MachineTypeOK
  <1>2. ImagesOnly /\ disk' = disk /\ run.pc = "seedread" /\ past' = past /\ supply' = supply
    BY DEF SeedReads, ImagesOnly
  <1>3. \/ vol' = "none" /\ SeedEnds("failed")
        \/ vol' = "none" /\ SeedEnds("ok") /\ vol # "none" /\ disk[vol].ip = "own"
        \/ run' = [run EXCEPT !.pc = "seedwrite"] /\ vol' = vol /\ vol # "none"
    BY DEF SeedReads
  <1>4. /\ RunKept /\ run'.good = run.good /\ run'.kit = run.kit /\ run'.staged = run.staged
        /\ vol' \in Image \union {"none"}
        /\ \/ run'.pc = "kit" /\ (run'.seed = "ok" => vol # "none" /\ disk[vol].ip = "own")
           \/ run'.pc = "seedwrite" /\ vol' = vol /\ vol # "none"
    <2>1. CASE vol' = "none" /\ SeedEnds("failed")
      BY <1>1, <2>1, SeedEndsIs DEF StepOutcome
    <2>2. CASE vol' = "none" /\ SeedEnds("ok") /\ vol # "none" /\ disk[vol].ip = "own"
      BY <1>1, <2>2, SeedEndsIs DEF StepOutcome
    <2>3. CASE run' = [run EXCEPT !.pc = "seedwrite"] /\ vol' = vol /\ vol # "none"
      BY <1>1, <2>3 DEF RunState, RunKept
    <2> QED
      BY <1>3, <2>1, <2>2, <2>3
  <1>5. MachineTypeOK'
    BY <1>1, <1>2, <1>4 DEF MachineTypeOK, ImagesOnly
  <1>6. InstallTypeOK'
    BY <1>1, <1>2, <1>4 DEF InstallTypeOK, RunKept
  <1> QED
    BY <1>2, <1>4, <1>5, <1>6

\* They are written back.
LEMMA SeedWritesIs ==
    ASSUME HostTypeOK, NEW fault \in BOOLEAN, SeedWrites(fault)
    PROVE  /\ MachineTypeOK' /\ InstallTypeOK' /\ ImagesOnly /\ RunKept /\ PastRest(past.clean /\ ~fault)
           /\ run.pc = "seedwrite" /\ run'.good = run.good /\ run'.kit = run.kit /\ run'.staged = run.staged
           /\ run'.pc = "kit" /\ vol' = "none" /\ past'.stale = past.stale
           /\ \/ disk' = disk /\ (vol = "none" \/ "seed" \in past'.lost)
              \/ vol \in Image /\ disk' = [disk EXCEPT ![vol].ip = "own"]
  <1>1. run \in RunState /\ InstallTypeOK /\ MachineTypeOK /\ vol \in Image \union {"none"}
        /\ disk \in [Image -> DiskState]
    BY DEF HostTypeOK, InstallTypeOK, MachineTypeOK
  <1>2. ImagesOnly /\ run.pc = "seedwrite" /\ vol' = "none" /\ Copies("seed", fault) /\ SeedEnds("ok")
    BY DEF SeedWrites, ImagesOnly
  <1>3. /\ supply' \in Supply /\ PastRest(past.clean /\ ~fault) /\ past'.stale = past.stale
        /\ fault => "seed" \in past'.lost
    BY <1>1, <1>2, CopiesIs
  <1>4. RunKept /\ run'.good = run.good /\ run'.pc = "kit" /\ run'.kit = run.kit /\ run'.staged = run.staged
    BY <1>1, <1>2, SeedEndsIs DEF StepOutcome
  <1>5. \/ disk' = disk /\ (vol = "none" \/ fault)
        \/ vol \in Image /\ disk' = [disk EXCEPT ![vol].ip = "own"]
    BY <1>1 DEF SeedWrites
  <1>6. disk' \in [Image -> DiskState]
    BY <1>1, <1>5 DEF DiskState, Address
  <1>7. MachineTypeOK'
    BY <1>1, <1>2, <1>6 DEF MachineTypeOK, ImagesOnly
  <1>8. InstallTypeOK'
    BY <1>3, <1>4 DEF InstallTypeOK, PastKept, PastRest, RunKept
  <1> QED
    BY <1>2, <1>3, <1>4, <1>5, <1>7, <1>8

\* The guest's image is mounted, unless a guest may be using it.
LEMMA KitBeginsIs ==
    ASSUME HostTypeOK, NEW fault \in BOOLEAN, KitBegins(fault)
    PROVE  /\ MachineTypeOK' /\ InstallTypeOK' /\ ImagesOnly /\ disk' = disk /\ RunKept
           /\ \E f \in BOOLEAN : PastKept(past.clean /\ ~f)
           /\ run.pc = "kit" /\ run'.good = run.good /\ run'.staged = run.staged
           /\ \/ run'.pc = "exit" /\ run'.kit # "ok" /\ vol' = vol
              \/ run'.pc = "pull" /\ run'.kit = run.kit /\ vol' = "work" /\ ~ImageInUse
  <1>1. run \in RunState /\ InstallTypeOK /\ MachineTypeOK /\ vol \in Image \union {"none"}
    BY DEF HostTypeOK, InstallTypeOK, MachineTypeOK
  <1>2. ImagesOnly /\ disk' = disk /\ run.pc = "kit"
    BY DEF KitBegins, ImagesOnly
  <1>3. PICK f \in BOOLEAN : Meets(f)
    BY DEF KitBegins
  <1>4. supply' \in Supply /\ PastKept(past.clean /\ ~f)
    BY <1>1, <1>3, MeetsIs
  <1>5. \/ vol' = vol /\ \E o \in StepOutcome \ {"ok"} : KitEnds(o)
        \/ run' = [run EXCEPT !.pc = "pull"] /\ vol' = "work" /\ ~ImageInUse
    BY DEF KitBegins, StepOutcome
  <1>6. /\ RunKept /\ run'.good = run.good /\ run'.staged = run.staged /\ vol' \in Image \union {"none"}
        /\ \/ run'.pc = "exit" /\ run'.kit # "ok" /\ vol' = vol
           \/ run'.pc = "pull" /\ run'.kit = run.kit /\ vol' = "work" /\ ~ImageInUse
    <2>1. CASE vol' = vol /\ \E o \in StepOutcome \ {"ok"} : KitEnds(o)
      BY <1>1, <2>1, KitEndsIs
    <2>2. CASE run' = [run EXCEPT !.pc = "pull"] /\ vol' = "work" /\ ~ImageInUse
      BY <1>1, <2>2 DEF RunState, RunKept, Image
    <2> QED
      BY <1>5, <2>1, <2>2
  <1>7. MachineTypeOK'
    BY <1>1, <1>2, <1>6 DEF MachineTypeOK, ImagesOnly
  <1>8. InstallTypeOK'
    BY <1>4, <1>6 DEF InstallTypeOK, PastKept, PastRest, RunKept
  <1> QED
    BY <1>2, <1>4, <1>6, <1>7, <1>8

\* The programs are copied off it.
LEMMA PullIs ==
    ASSUME HostTypeOK, NEW fault \in BOOLEAN, Pull(fault)
    PROVE  /\ MachineTypeOK' /\ InstallTypeOK' /\ ImagesOnly /\ disk' = disk /\ RunKept
           /\ PastKept(past.clean /\ ~fault)
           /\ run.pc = "pull" /\ run'.good = run.good /\ vol' = "none"
           /\ \/ run'.pc = "exit" /\ run'.kit = "failed" /\ run'.staged = run.staged
              \/ run'.pc = "format" /\ run'.kit = run.kit /\ Required \subseteq run'.staged
                 /\ ~Mounted.baked
  <1>1. run \in RunState /\ InstallTypeOK /\ MachineTypeOK
    BY DEF HostTypeOK, InstallTypeOK
  <1>2. ImagesOnly /\ disk' = disk /\ run.pc = "pull" /\ Meets(fault) /\ vol' = "none"
    BY DEF Pull, ImagesOnly
  <1>3. supply' \in Supply /\ PastKept(past.clean /\ ~fault)
    BY <1>1, <1>2, MeetsIs
  <1>4. PICK got \in SUBSET App :
            run' = IF Shippable(got)
                   THEN [run EXCEPT !.pc = "format", !.staged = got \union {PrefsFile}]
                   ELSE [run EXCEPT !.pc = "exit", !.kit = "failed"]
    BY DEF Pull
  <1>5. /\ RunKept /\ run'.good = run.good
        /\ \/ run'.pc = "exit" /\ run'.kit = "failed" /\ run'.staged = run.staged
           \/ run'.pc = "format" /\ run'.kit = run.kit /\ Required \subseteq run'.staged
              /\ ~Mounted.baked
    <2>1. CASE Shippable(got)
      <3>1. got \union {PrefsFile} \in SUBSET (App \union {PrefsFile})
        OBVIOUS
      <3> QED
        BY <1>1, <1>4, <2>1, <3>1 DEF RunState, RunKept, Shippable
    <2>2. CASE ~Shippable(got)
      BY <1>1, <1>4, <2>2 DEF RunState, RunKept, StepOutcome
    <2> QED
      BY <2>1, <2>2
  <1>6. MachineTypeOK'
    BY <1>1, <1>2 DEF MachineTypeOK, ImagesOnly
  <1>7. InstallTypeOK'
    BY <1>3, <1>5 DEF InstallTypeOK, PastKept, PastRest, RunKept
  <1> QED
    BY <1>2, <1>3, <1>5, <1>6, <1>7

\* A new image is made and mounted.
LEMMA FormatIs ==
    ASSUME HostTypeOK, NEW fault \in BOOLEAN, Format(fault)
    PROVE  /\ MachineTypeOK' /\ InstallTypeOK' /\ ImagesOnly /\ RunKept /\ PastKept(past.clean /\ ~fault)
           /\ run.pc = "format" /\ run'.good = run.good /\ run'.staged = run.staged
           /\ disk'["work"] = disk["work"] /\ disk'["kit"] = Blank
           /\ \/ run'.pc = "exit" /\ run'.kit = "failed" /\ vol' = vol
              \/ run'.pc = "place" /\ run'.kit = run.kit /\ vol' = "kit"
  <1>1. run \in RunState /\ InstallTypeOK /\ MachineTypeOK /\ vol \in Image \union {"none"}
        /\ disk \in [Image -> DiskState]
    BY DEF HostTypeOK, InstallTypeOK, MachineTypeOK
  <1>2. ImagesOnly /\ disk' = [disk EXCEPT !["kit"] = Blank] /\ run.pc = "format" /\ Meets(fault)
    BY DEF Format, ImagesOnly
  <1>3. supply' \in Supply /\ PastKept(past.clean /\ ~fault)
    BY <1>1, <1>2, MeetsIs
  <1>4. Blank \in DiskState
    BY DEF Blank, DiskState, Address
  <1>5. disk' \in [Image -> DiskState] /\ disk'["work"] = disk["work"] /\ disk'["kit"] = Blank
    BY <1>1, <1>2, <1>4 DEF Image
  <1>6. /\ RunKept /\ run'.good = run.good /\ run'.staged = run.staged /\ vol' \in Image \union {"none"}
        /\ \/ run'.pc = "exit" /\ run'.kit = "failed" /\ vol' = vol
           \/ run'.pc = "place" /\ run'.kit = run.kit /\ vol' = "kit"
    <2>1. CASE fault
      BY <1>1, <2>1, KitEndsIs DEF Format, StepOutcome
    <2>2. CASE ~fault
      BY <1>1, <2>2 DEF Format, RunState, RunKept, Image
    <2> QED
      BY <2>1, <2>2
  <1>7. MachineTypeOK'
    BY <1>1, <1>2, <1>5, <1>6 DEF MachineTypeOK, ImagesOnly
  <1>8. InstallTypeOK'
    BY <1>3, <1>6 DEF InstallTypeOK, PastKept, PastRest, RunKept
  <1> QED
    BY <1>2, <1>3, <1>5, <1>6, <1>7, <1>8

\* The files are copied to the mounted volume.
LEMMA PlaceIs ==
    ASSUME HostTypeOK, NEW fault \in BOOLEAN, Place(fault)
    PROVE  /\ MachineTypeOK' /\ InstallTypeOK' /\ ImagesOnly /\ RunKept /\ PastRest(past.clean /\ ~fault)
           /\ past'.stale = past.stale
           /\ vol = "kit" /\ "kit" \notin past'.lost => run.staged \subseteq disk'["kit"].files
           /\ run.pc = "place" /\ run'.pc = "verify" /\ run'.good = run.good /\ run'.staged = run.staged
           /\ run'.kit = run.kit /\ vol' = vol
           /\ disk'["work"].baked = disk["work"].baked
           /\ vol # "work" => disk'["work"] = disk["work"]
           /\ disk'["kit"].ip \in {disk["kit"].ip, KitAddress}
  <1>1. run \in RunState /\ InstallTypeOK /\ MachineTypeOK /\ vol \in Image \union {"none"}
        /\ disk \in [Image -> DiskState] /\ run.staged \in SUBSET (App \union {PrefsFile})
    BY DEF HostTypeOK, InstallTypeOK, MachineTypeOK, RunState
  <1>2. ImagesOnly /\ run.pc = "place" /\ Copies("kit", fault) /\ vol' = vol /\ run' = [run EXCEPT !.pc = "verify"]
    BY DEF Place, ImagesOnly
  <1>3. /\ supply' \in Supply /\ PastRest(past.clean /\ ~fault) /\ past'.stale = past.stale
        /\ fault => "kit" \in past'.lost
    BY <1>1, <1>2, CopiesIs
  <1>4. PICK files \in SUBSET (App \union {PrefsFile}) :
            /\ ~fault => files = run.staged
            /\ disk' = CASE vol = "none" -> disk
                         [] vol = "kit"  -> [disk EXCEPT !["kit"] = With(disk["kit"], files)]
                         [] vol = "work" -> [disk EXCEPT !["work"].strange = (files # {})]
    BY <1>1 DEF Place
  <1>5. KitAddress \in Address
    BY DEF KitAddress, Address
  <1>6. PICK s \in BOOLEAN : s = (files # {})
    OBVIOUS
  <1>7. /\ disk' \in [Image -> DiskState] /\ disk'["work"].baked = disk["work"].baked
        /\ vol # "work" => disk'["work"] = disk["work"]
        /\ disk'["kit"].ip \in {disk["kit"].ip, KitAddress}
        /\ vol = "kit" => files \subseteq disk'["kit"].files
    <2>1. CASE vol = "none"
      BY <1>1, <1>4, <2>1
    <2>2. CASE vol = "kit"
      <3>1. disk["kit"] \in DiskState
        BY <1>1 DEF Image
      <3>2. /\ With(disk["kit"], files) \in DiskState /\ With(disk["kit"], files).ip \in {disk["kit"].ip, KitAddress}
            /\ files \subseteq With(disk["kit"], files).files
        BY <3>1, <1>5 DEF With, DiskState
      <3>3. disk' = [disk EXCEPT !["kit"] = With(disk["kit"], files)]
        BY <1>4, <2>2
      <3> QED
        BY <1>1, <2>2, <3>2, <3>3 DEF Image
    <2>3. CASE vol = "work"
      <3>1. disk' = [disk EXCEPT !["work"].strange = s]
        BY <1>4, <1>6, <2>3
      <3> QED
        BY <1>1, <2>3, <3>1 DEF Image, DiskState
    <2> QED
      BY <1>1, <2>1, <2>2, <2>3 DEF Image
  <1>8. RunKept /\ run'.pc = "verify" /\ run'.good = run.good /\ run'.staged = run.staged /\ run'.kit = run.kit
    BY <1>1, <1>2 DEF RunState, RunKept
  <1>9. MachineTypeOK'
    BY <1>1, <1>2, <1>7 DEF MachineTypeOK, ImagesOnly
  <1>10. InstallTypeOK'
    BY <1>3, <1>8 DEF InstallTypeOK, PastKept, PastRest, RunKept
  <1>11. ~fault => files = run.staged
    BY <1>4
  <1> QED
    BY <1>2, <1>3, <1>7, <1>8, <1>9, <1>10, <1>11

\* The listing of the volume is compared with what was to be there.
LEMMA VerifyIs ==
    ASSUME HostTypeOK, Verify
    PROVE  /\ MachineTypeOK' /\ InstallTypeOK' /\ ImagesOnly /\ disk' = disk /\ RunKept /\ past' = past
           /\ run.pc = "verify" /\ run'.pc = "exit" /\ run'.good = run.good /\ run'.staged = run.staged
           /\ vol' = "none"
           /\ run'.kit = "ok" /\ vol = "kit" => \A label \in run.staged : Listed(label, disk["kit"].files)
  <1>1. run \in RunState /\ InstallTypeOK /\ MachineTypeOK
    BY DEF HostTypeOK, InstallTypeOK
  <1>2. ImagesOnly /\ disk' = disk /\ run.pc = "verify" /\ vol' = "none" /\ past' = past /\ supply' = supply
    BY DEF Verify, ImagesOnly
  <1> DEFINE all == \A label \in run.staged :
                        Listed(label, IF vol = "work" /\ disk["work"].strange THEN run.staged ELSE Mounted.files)
  <1>3. KitEnds(IF all THEN "ok" ELSE "failed")
    BY DEF Verify
  <1>4. vol = "kit" => (all <=> \A label \in run.staged : Listed(label, disk["kit"].files))
    BY DEF Mounted
  <1> HIDE DEF all
  <1>5. /\ RunKept /\ run'.good = run.good /\ run'.staged = run.staged /\ run'.pc = "exit"
        /\ run'.kit = (IF all THEN "ok" ELSE "failed")
    BY <1>1, <1>3, KitEndsIs DEF StepOutcome
  <1>6. MachineTypeOK'
    BY <1>1, <1>2 DEF MachineTypeOK, ImagesOnly
  <1>7. InstallTypeOK'
    BY <1>1, <1>2, <1>5 DEF InstallTypeOK, RunKept
  <1> QED
    BY <1>2, <1>4, <1>5, <1>6, <1>7

\* The run is over.
LEMMA ExitIs ==
    ASSUME HostTypeOK, Exit
    PROVE  /\ MachineTypeOK' /\ InstallTypeOK' /\ UNCHANGED machineVars /\ RunKept
           /\ run.pc = "exit" /\ run'.pc = "idle" /\ run'.good = run.good /\ run'.staged = run.staged
           /\ run'.kit = run.kit
           /\ past'.prefs = past.prefs /\ past'.netmode = past.netmode /\ past'.work = past.work
           /\ past'.env = past.env /\ past'.agent = past.agent /\ past'.stale = past.stale /\ past'.lost = past.lost
           /\ past'.through = past.through /\ past'.alone = past.alone /\ past'.clean = past.clean
           /\ past'.exit \in {0, 1, 3} /\ past'.settled = (past'.exit = 0)
           /\ past'.exit = 0 => run.good /\ ~run.refused
  <1>1. run \in RunState /\ past \in PastState /\ InstallTypeOK /\ MachineTypeOK
    BY DEF HostTypeOK, InstallTypeOK
  <1>2. UNCHANGED machineVars /\ run.pc = "exit" /\ run' = [run EXCEPT !.pc = "idle"]
        /\ past' = [past EXCEPT !.exit = ExitCode, !.settled = (ExitCode = 0)]
    BY DEF Exit
  <1>3. ExitCode \in {0, 1, 3} /\ (ExitCode = 0 => run.good /\ ~run.refused)
    BY DEF ExitCode
  <1>4. PICK s \in BOOLEAN : s = (ExitCode = 0)
    OBVIOUS
  <1>5. past' = [past EXCEPT !.exit = ExitCode, !.settled = s]
    BY <1>2, <1>4
  <1> HIDE DEF ExitCode
  <1>6. /\ past' \in PastState
        /\ past'.prefs = past.prefs /\ past'.netmode = past.netmode /\ past'.work = past.work
        /\ past'.env = past.env /\ past'.agent = past.agent /\ past'.stale = past.stale /\ past'.lost = past.lost
        /\ past'.through = past.through /\ past'.alone = past.alone /\ past'.clean = past.clean
        /\ past'.exit = ExitCode /\ past'.settled = s
    BY <1>1, <1>3, <1>5 DEF PastState, Unended
  <1>7. RunKept /\ run'.pc = "idle" /\ run'.good = run.good /\ run'.staged = run.staged /\ run'.kit = run.kit
    BY <1>1, <1>2 DEF RunState, RunKept
  <1>8. MachineTypeOK' /\ InstallTypeOK'
    BY <1>1, <1>2, <1>6, <1>7 DEF MachineTypeOK, InstallTypeOK, machineVars, hostVars, RunKept
  <1> QED
    BY <1>2, <1>3, <1>4, <1>6, <1>7, <1>8

\* It is killed.
LEMMA KilledIs ==
    ASSUME HostTypeOK, Killed
    PROVE  /\ MachineTypeOK' /\ InstallTypeOK' /\ UNCHANGED hostVars /\ run' = Resting /\ past' = Fresh
  <1>1. run' = Resting /\ past' = Fresh /\ UNCHANGED hostVars /\ Fresh \in PastState /\ Resting \in RunState
    BY FreshIs DEF Killed, HostTypeOK
  <1>2. supply' \in Supply
    BY SpendsIs DEF Killed, HostTypeOK, InstallTypeOK
  <1> QED
    BY <1>1, <1>2 DEF HostTypeOK, MachineTypeOK, InstallTypeOK, hostVars

\* The installer keeps the types.
LEMMA InstallNextTypes ==
    ASSUME HostTypeOK, InstallNext
    PROVE  MachineTypeOK' /\ InstallTypeOK'
  BY BeginIs, DecideIs, IntentIs, CheckStepIs, WriteEnvIs, InstallAgentIs, SeedBeginsIs, SeedUnansweredIs,
     SeedReadsIs, SeedWritesIs, KitBeginsIs, PullIs, FormatIs, PlaceIs, VerifyIs, ExitIs, KilledIs
     DEF InstallNext

\* The findings and their levels.
LEMMA FindingsAre ==
    /\ DOMAIN Findings = 1..19
    /\ Finding = {"launchd_disabled", "host_server_not_running", "launchd_absent", "control_port_closed",
                  "host_ip_missing", "host_ip_duplicate", "host_ip_wrong_interface", "ether_slirp", "ether_drift",
                  "etherhelper_dead", "local_env_has_host_ip", "emulator_app_stale", "deploy_missing",
                  "guest_ip_stale"} \union RowFinding
    /\ \A i \in 1..19 : Findings[i][2] \in {"error", "warn"}
  <1>1. DOMAIN Findings = 1..19
    BY DEF Findings
  <1>2. /\ Findings[1] = <<"launchd_disabled", "error">> /\ Findings[2] = <<"host_server_not_running", "error">>
        /\ Findings[3] = <<"launchd_absent", "error">> /\ Findings[4] = <<"control_port_closed", "warn">>
        /\ Findings[5] = <<"host_ip_missing", "error">> /\ Findings[6] = <<"host_ip_duplicate", "error">>
        /\ Findings[7] = <<"host_ip_wrong_interface", "error">> /\ Findings[8] = <<"ether_slirp", "warn">>
        /\ Findings[9] = <<"ether_drift", "warn">> /\ Findings[10] = <<"etherhelper_dead", "error">>
        /\ Findings[11] = <<"local_env_has_host_ip", "error">> /\ Findings[12] = <<"emulator_app_stale", "warn">>
        /\ Findings[13] = <<"deploy_missing", "error">> /\ Findings[14] = <<"guest_ip_stale", "error">>
        /\ Findings[15] = <<"guest_table_invalid", "warn">> /\ Findings[16] = <<"guest_agent_down", "error">>
        /\ Findings[17] = <<"guest_ports", "error">> /\ Findings[18] = <<"guest_name_refused", "error">>
        /\ Findings[19] = <<"guest_unverified", "warn">>
    BY DEF Findings
  <1>3. \A i \in 1..19 : i \in {1, 2, 3, 4, 5, 6, 7, 8, 9, 10, 11, 12, 13, 14, 15, 16, 17, 18, 19}
    OBVIOUS
  <1>4. \A i \in 1..19 : /\ Findings[i][2] \in {"error", "warn"}
                         /\ Findings[i][1] \in
                                {"launchd_disabled", "host_server_not_running", "launchd_absent",
                                 "control_port_closed", "host_ip_missing", "host_ip_duplicate",
                                 "host_ip_wrong_interface", "ether_slirp", "ether_drift", "etherhelper_dead",
                                 "local_env_has_host_ip", "emulator_app_stale", "deploy_missing",
                                 "guest_ip_stale"} \union RowFinding
    BY <1>2, <1>3 DEF RowFinding
  <1> QED
    BY <1>1, <1>2, <1>4 DEF Finding, RowFinding

-----------------------------------------------------------------------------
(* Types: everything else *)

\* The history is told of what the installer did not do.
LEMMA DisturbedIs ==
    ASSUME HostTypeOK, Disturbed
    PROVE  /\ past' \in PastState /\ past'.prefs = past.prefs /\ past'.netmode = past.netmode
           /\ past'.work = past.work /\ past'.exit = past.exit
           /\ past'.stale = past.stale /\ past'.lost = past.lost
           /\ past'.through = {e \in past.through : up'[e] # Off}
           /\ past'.alone = FALSE /\ past'.clean = FALSE /\ past'.settled = FALSE
  <1>1. past \in PastState
    BY DEF HostTypeOK, InstallTypeOK
  <1>2. PICK f \in BOOLEAN : ~f
    BY Zenon
  <1> DEFINE t == {e \in past.through : up'[e] # Off}
  <1>3. t \subseteq Emulator
    BY <1>1 DEF PastState
  <1>4. past' = [past EXCEPT !.through = t, !.alone = f, !.clean = f, !.settled = f]
    BY <1>2 DEF Disturbed
  <1> HIDE DEF t
  <1>5. /\ past' \in PastState /\ past'.prefs = past.prefs /\ past'.netmode = past.netmode
        /\ past'.work = past.work /\ past'.exit = past.exit
        /\ past'.stale = past.stale /\ past'.lost = past.lost
        /\ past'.through = t /\ past'.alone = f /\ past'.clean = f /\ past'.settled = f
    BY <1>1, <1>3, <1>4 DEF PastState
  <1> QED
    BY <1>2, <1>5 DEF t

\* Of the doctor only the quiet is broken.
LEMMA UnquietIs ==
    ASSUME HostTypeOK, Unquiet
    PROVE  DoctorTypeOK' /\ doctor'.quiet = FALSE /\ doctor'.pc = doctor.pc
  <1>1. doctor \in DoctorState
    BY DEF HostTypeOK, DoctorTypeOK
  <1>2. PICK f \in BOOLEAN : ~f
    BY Zenon
  <1>3. doctor' = [doctor EXCEPT !.quiet = f]
    BY <1>2 DEF Unquiet
  <1>4. doctor' \in DoctorState /\ doctor'.quiet = f /\ doctor'.pc = doctor.pc
    BY <1>1, <1>3 DEF DoctorState
  <1> QED
    BY <1>2, <1>4 DEF DoctorTypeOK

\* An emulator is launched.
LEMMA LaunchIs ==
    ASSUME HostTypeOK, NEW e \in Emulator, NEW byStack \in BOOLEAN, NEW work \in BOOLEAN, Launch(e, byStack, work)
    PROVE  /\ MachineTypeOK' /\ supply' \in Supply /\ UNCHANGED <<bundle, env, agent, disk, vol>>
           /\ prefs[e] # NoFile
           /\ IF byStack THEN e = "basilisk" /\ CheckEtherBackend(e) ELSE UNCHANGED <<prefs, netmode, newest>>
           /\ \A x \in Emulator : x # e \/ up[e] # Off => up'[x] = up[x]
           /\ up[e] = Off => up'[e].ether = FirstEther(prefs'[e])
  <1>1. MachineTypeOK /\ up \in [Emulator -> Running]
    BY DEF HostTypeOK, MachineTypeOK
  <1>2. supply' \in Supply
    BY SpendsIs DEF Launch, HostTypeOK, InstallTypeOK
  <1>3. /\ prefs[e] # NoFile /\ UNCHANGED <<bundle, env, agent, disk, vol>>
        /\ IF byStack THEN e = "basilisk" /\ CheckEtherBackend(e) ELSE UNCHANGED <<prefs, netmode, newest>>
    BY DEF Launch
  <1>4. prefs' \in [Emulator -> Prefs] /\ netmode' \in [Emulator -> Backend \union {"none"}] /\ newest' \in Emulator
    <2>1. CASE byStack
      BY <1>1, <1>3, <2>1, CheckIs
    <2>2. CASE ~byStack
      BY <1>1, <1>3, <2>2 DEF MachineTypeOK
    <2> QED
      BY <2>1, <2>2
  <1> DEFINE ether == FirstEther(prefs'[e])
  <1>5. ether \in Backend \union {"none"}
    BY <1>4, EtherIs
  <1>6. PICK h \in BOOLEAN : h = (ether = "bridge")
    OBVIOUS
  <1>7. up' = IF up[e] # Off THEN up ELSE [up EXCEPT ![e] = [ether |-> ether, work |-> work, helper |-> h]]
    BY <1>6 DEF Launch
  <1> HIDE DEF ether
  <1>8. [ether |-> ether, work |-> work, helper |-> h] \in Running
    BY <1>5 DEF Running
  <1>9. /\ up' \in [Emulator -> Running]
        /\ \A x \in Emulator : x # e \/ up[e] # Off => up'[x] = up[x]
        /\ up[e] = Off => up'[e].ether = ether
    BY <1>1, <1>7, <1>8
  <1>10. MachineTypeOK'
    BY <1>1, <1>3, <1>4, <1>9 DEF MachineTypeOK
  <1> QED
    BY <1>2, <1>3, <1>9, <1>10 DEF ether

\* One is quit, or its helper dies.
LEMMA StopsIs ==
    ASSUME HostTypeOK, NEW e \in Emulator, Quit(e) \/ HelperDies(e)
    PROVE  /\ MachineTypeOK' /\ supply' \in Supply
           /\ UNCHANGED <<prefs, netmode, newest, bundle, env, agent, disk, vol>>
           /\ \A x \in Emulator : up'[x] # Off => up[x] # Off /\ up'[x].work = up[x].work
  <1>1. MachineTypeOK /\ up \in [Emulator -> Running] /\ supply \in Supply
    BY DEF HostTypeOK, MachineTypeOK, InstallTypeOK
  <1>2. UNCHANGED <<prefs, netmode, newest, bundle, env, agent, disk, vol>>
    BY DEF Quit, HelperDies
  <1>3. PICK f \in BOOLEAN : ~f
    BY Zenon
  <1>4. /\ up' \in [Emulator -> Running] /\ supply' \in Supply
        /\ \A x \in Emulator : up'[x] # Off => up[x] # Off /\ up'[x].work = up[x].work
    <2>1. CASE Quit(e)
      <3>1. up' = [up EXCEPT ![e] = Off] /\ supply' = supply
        BY <2>1 DEF Quit
      <3> QED
        BY <1>1, <3>1 DEF Running
    <2>2. CASE HelperDies(e)
      <3>1. up' = [up EXCEPT ![e].helper = f] /\ up[e].helper /\ supply' \in Supply
        BY <1>1, <1>3, <2>2, SpendsIs DEF HelperDies
      <3>2. up[e] # Off
        BY <3>1 DEF Off
      <3>3. up[e] \in [ether : Backend \union {"none"}, work : BOOLEAN, helper : BOOLEAN]
        BY <1>1, <3>2 DEF Running
      <3> QED
        BY <1>1, <3>1, <3>2, <3>3 DEF Running
    <2> QED
      BY <2>1, <2>2
  <1>5. MachineTypeOK'
    BY <1>1, <1>2, <1>4 DEF MachineTypeOK
  <1> QED
    BY <1>2, <1>4, <1>5

\* What is found about the table.
LEMMA GuestFindingsAre == GuestFindings \subseteq RowFinding
  <1>1. ASSUME NEW r
        PROVE  RowFindings(r) \subseteq RowFinding
    <2> DEFINE l == LabelOf(r)
               x == CASE hello[l] = "refused" -> {"guest_name_refused"}
                      [] hello[l] = "nameless" /\ link[r.port] # NoLink -> {"guest_unverified"}
                      [] OTHER -> {}
    <2>1. x \subseteq RowFinding
      BY DEF RowFinding
    <2>2. RowFindings(r) \in {{"guest_agent_down"}, {"guest_ports"}, x}
      BY DEF RowFindings
    <2> QED
      BY <2>1, <2>2 DEF RowFinding
  <1> QED
    BY <1>1 DEF GuestFindings, RowFinding

\* The doctor looks, and reports.
LEMMA DoctorNextIs ==
    ASSUME HostTypeOK, DoctorNext
    PROVE  /\ MachineTypeOK' /\ supply' \in Supply /\ DoctorTypeOK'
           /\ UNCHANGED <<prefs, netmode, newest, up, bundle, env, agent, disk>>
           /\ vol' = vol \/ doctor'.pc = "mounted" \/ doctor.pc = "mounted"
           /\ doctor'.pc = "mounted" => vol' = "work" /\ doctor.pc # "mounted"
  <1>1. /\ MachineTypeOK /\ supply \in Supply /\ doctor \in DoctorState /\ vol \in Image \union {"none"}
        /\ up \in [Emulator -> Running] /\ newest \in Emulator /\ doctor.look \in Look
        /\ prefs \in [Emulator -> Prefs] /\ netmode \in [Emulator -> Backend \union {"none"}]
        /\ env \in EnvState /\ agent \in AgentState /\ disk \in [Image -> DiskState]
    BY DEF HostTypeOK, MachineTypeOK, InstallTypeOK, DoctorTypeOK, DoctorState
  <1>2. UNCHANGED <<prefs, netmode, newest, up, bundle, env, agent, disk>>
    BY DEF DoctorNext, LookAtProcesses, LookAtServices, LookAtFiles, LookAtImage, ReadPrefs, hostVars, machineVars
  <1>3. CASE LookAtProcesses
    <2>1. /\ supply' \in Supply /\ vol' = vol
      BY <1>1, <1>3, SpendsIs DEF LookAtProcesses, hostVars
    <2>2. Resolved(UpNow, "none") \in Emulator /\ UpNow \subseteq Emulator
      BY <1>1, ResolvedIs DEF UpNow
    <2>3. PICK h \in BOOLEAN : h = \E e \in Emulator : up[e].helper
      OBVIOUS
    <2> DEFINE l == [Blind EXCEPT !.procs = UpNow, !.helper = h, !.choice = Resolved(UpNow, "none")]
    <2>4. PICK t \in BOOLEAN, f \in BOOLEAN : t /\ ~f
      BY Zenon
    <2>5. Blind \in Look
      BY DEF Blind, Look, EnvState, Address, Emulator, Backend
    <2>6. l \in Look
      BY <2>2, <2>5 DEF Look
    <2>7. doctor' = [pc |-> "services", report |-> {}, done |-> f, quiet |-> t, look |-> l]
      BY <1>3, <2>3, <2>4 DEF LookAtProcesses
    <2> HIDE DEF l
    <2>8. doctor' \in DoctorState /\ doctor'.pc = "services"
      BY <2>4, <2>6, <2>7 DEF DoctorState
    <2> QED
      BY <1>1, <1>2, <2>1, <2>8 DEF MachineTypeOK, DoctorTypeOK
  <1>4. CASE LookAtServices
    <2>1. supply' = supply /\ vol' = vol
      BY <1>4 DEF LookAtServices, machineVars, hostVars
    <2>2. PICK s \in BOOLEAN : s = Serving
      BY DEF Serving
    <2>3. doctor' = [doctor EXCEPT !.pc = "files", !.look = [doctor.look EXCEPT !.agent = agent.state, !.serving = s]]
      BY <1>1, <1>4, <2>2 DEF LookAtServices, DoctorState, Look
    <2>4. [doctor.look EXCEPT !.agent = agent.state, !.serving = s] \in Look
      BY <1>1 DEF Look, AgentState
    <2>5. doctor' \in DoctorState /\ doctor'.pc = "files"
      BY <1>1, <2>3, <2>4 DEF DoctorState
    <2> QED
      BY <1>1, <1>2, <2>1, <2>5 DEF MachineTypeOK, DoctorTypeOK
  <1>5. CASE LookAtFiles
    <2>1. supply' = supply /\ vol' = vol
      BY <1>5 DEF LookAtFiles, machineVars, hostVars
    <2> DEFINE m == [doctor.look EXCEPT !.ether = LastEther(prefs[doctor.look.choice]),
                                        !.intended = netmode[doctor.look.choice], !.env = env,
                                        !.deployed = agent.deployed, !.guests = GuestFindings]
    <2>2. doctor.look.choice \in Emulator /\ agent.deployed \in BOOLEAN
      BY <1>1 DEF Look, AgentState
    <2>3. LastEther(prefs[doctor.look.choice]) \in Backend \union {"none"}
      BY <1>1, <2>2, EtherIs
    <2>4. GuestFindings \subseteq Finding
      BY FindingsAre, GuestFindingsAre
    <2>5. doctor' = [doctor EXCEPT !.pc = "image", !.look = m]
      BY <1>1, <1>5 DEF LookAtFiles, DoctorState, Look
    <2>6. m \in Look
      BY <1>1, <2>2, <2>3, <2>4 DEF Look
    <2> HIDE DEF m
    <2>7. doctor' \in DoctorState /\ doctor'.pc = "image"
      BY <1>1, <2>5, <2>6 DEF DoctorState
    <2> QED
      BY <1>1, <1>2, <2>1, <2>7 DEF MachineTypeOK, DoctorTypeOK
  <1>6. ASSUME NEW l \in Look, Reports(l)
        PROVE  DoctorTypeOK' /\ doctor'.pc = "idle"
    <2>1. Interpret(l) \subseteq Finding
      BY DEF Interpret
    <2>2. Blind \in Look
      BY DEF Blind, Look, EnvState, Address, Emulator, Backend
    <2>3. PICK t \in BOOLEAN : t
      BY Zenon
    <2>4. doctor' = [doctor EXCEPT !.pc = "idle", !.look = Blind, !.report = Interpret(l), !.done = t]
      BY <1>6, <2>3 DEF Reports
    <2> QED
      BY <1>1, <2>1, <2>2, <2>4 DEF DoctorState, DoctorTypeOK
  <1>7. CASE LookAtImage
    <2>1. supply' = supply /\ doctor.pc = "image"
      BY <1>7 DEF LookAtImage
    <2>2. CASE doctor.look.procs # {}
      <3>1. Reports(doctor.look) /\ vol' = vol
        BY <1>7, <2>2 DEF LookAtImage
      <3> QED
        BY <1>1, <1>2, <1>6, <2>1, <3>1 DEF MachineTypeOK
    <2>3. CASE doctor.look.procs = {}
      <3>1. doctor' = [doctor EXCEPT !.pc = "mounted"] /\ vol' = "work"
        BY <1>7, <2>3 DEF LookAtImage
      <3>2. DoctorTypeOK' /\ doctor'.pc = "mounted"
        BY <1>1, <3>1 DEF DoctorState, DoctorTypeOK
      <3> QED
        BY <1>1, <1>2, <2>1, <3>1, <3>2 DEF MachineTypeOK, Image
    <2> QED
      BY <2>2, <2>3
  <1>8. CASE ReadPrefs
    <2>1. supply' = supply /\ vol' = "none" /\ doctor.pc = "mounted"
      BY <1>8 DEF ReadPrefs
    <2> DEFINE i == IF vol # "none" /\ PrefsFile \in disk[vol].files THEN disk[vol].ip ELSE "none"
    <2>2. i \in Address
      BY <1>1 DEF DiskState, Address
    <2>3. Reports([doctor.look EXCEPT !.ip = i])
      BY <1>8 DEF ReadPrefs
    <2> HIDE DEF i
    <2>4. [doctor.look EXCEPT !.ip = i] \in Look
      BY <1>1, <2>2 DEF Look
    <2> QED
      BY <1>1, <1>2, <1>6, <2>1, <2>3, <2>4 DEF MachineTypeOK
  <1> QED
    BY <1>3, <1>4, <1>5, <1>7, <1>8 DEF DoctorNext

\* What a person does about a finding.
LEMMA FixIs ==
    ASSUME HostTypeOK, NEW key, Fix(key)
    PROVE  /\ prefs' \in [Emulator -> Prefs] /\ netmode' \in [Emulator -> Backend \union {"none"}]
           /\ up' \in [Emulator -> Running] /\ env' \in EnvState /\ agent' \in AgentState
           /\ disk' \in [Image -> DiskState]
           /\ \A e \in Emulator : Slirped(e) => Slirped(e)'
           /\ \A x \in Emulator : up'[x] # Off => up[x] # Off /\ up'[x].work = up[x].work
           /\ disk'["kit"] = disk["kit"] /\ disk'["work"].baked = disk["work"].baked
           /\ disk'["work"].strange = disk["work"].strange
  <1> DEFINE c == Resolved(UpNow, "none")
  <1>1. /\ prefs \in [Emulator -> Prefs] /\ netmode \in [Emulator -> Backend \union {"none"}]
        /\ up \in [Emulator -> Running] /\ env \in EnvState /\ agent \in AgentState
        /\ disk \in [Image -> DiskState] /\ newest \in Emulator
    BY DEF HostTypeOK, MachineTypeOK
  <1>2. c \in Emulator
    BY <1>1, ResolvedIs DEF UpNow
  <1> DEFINE Prefs1 == prefs' = prefs /\ netmode' = netmode
             Up1    == up' = up
             Disk1  == disk' = disk
  <1>3. CASE key \in {"launchd_disabled", "launchd_absent"}
    <2>1. agent' = [agent EXCEPT !.state = "loaded"] /\ UNCHANGED <<prefs, netmode, up, env, disk>>
      BY <1>3 DEF Fix
    <2> QED
      BY <1>1, <2>1 DEF AgentState, Slirped
  <1>4. CASE key = "host_server_not_running"
    <2>1. /\ env' = [env EXCEPT !.addr = IF @ = "gone" THEN "own" ELSE @]
          /\ agent' = [agent EXCEPT !.state = "hand", !.addr = env'.addr]
          /\ UNCHANGED <<prefs, netmode, up, disk>>
      BY <1>4 DEF Fix
    <2>2. env' \in EnvState /\ env'.addr \in Address
      BY <1>1, <2>1 DEF EnvState, Address
    <2>3. agent' \in AgentState
      BY <1>1, <2>1, <2>2 DEF AgentState
    <2> QED
      BY <1>1, <2>1, <2>2, <2>3 DEF Slirped
  <1>5. CASE key \in {"host_ip_missing", "host_ip_duplicate", "host_ip_wrong_interface"}
    <2>1. env' = [env EXCEPT !.addr = "own"] /\ UNCHANGED <<prefs, netmode, up, agent, disk>>
      BY <1>5 DEF Fix
    <2> QED
      BY <1>1, <2>1 DEF EnvState, Address, Slirped
  <1>6. CASE key = "local_env_has_host_ip"
    <2>1. env' = [env EXCEPT !.addr = "none"] /\ UNCHANGED <<prefs, netmode, up, agent, disk>>
      BY <1>6 DEF Fix
    <2> QED
      BY <1>1, <2>1 DEF EnvState, Address, Slirped
  <1>7. CASE key = "emulator_app_stale"
    <2>1. env' = [env EXCEPT !.app = "there"] /\ UNCHANGED <<prefs, netmode, up, agent, disk>>
      BY <1>7 DEF Fix
    <2> QED
      BY <1>1, <2>1 DEF EnvState, Slirped
  <1>8. CASE key = "deploy_missing"
    <2>1. PICK t \in BOOLEAN : t
      BY Zenon
    <2>2. agent' = [agent EXCEPT !.deployed = t] /\ UNCHANGED <<prefs, netmode, up, env, disk>>
      BY <1>8, <2>1 DEF Fix
    <2> QED
      BY <1>1, <2>2 DEF AgentState, Slirped
  <1>9. CASE key = "guest_ip_stale"
    <2>1. disk' = [disk EXCEPT !["work"].ip = "own"] /\ UNCHANGED <<prefs, netmode, up, env, agent>>
      BY <1>9 DEF Fix
    <2>2. disk["work"] \in DiskState
      BY <1>1 DEF Image
    <2>3. [disk["work"] EXCEPT !.ip = "own"] \in DiskState
      BY <2>2 DEF DiskState, Address
    <2> QED
      BY <1>1, <2>1, <2>2, <2>3 DEF Slirped, Image, DiskState
  <1>10. CASE key = "ether_slirp" /\ netmode[c] = "none"
    <2>1. netmode' = [netmode EXCEPT ![c] = "slirp"] /\ UNCHANGED <<prefs, up, env, agent, disk>>
      BY <1>10 DEF Fix
    <2> HIDE DEF c
    <2> QED
      BY <1>1, <1>2, <1>10, <2>1 DEF Slirped, Backend
  <1>11. CASE key \in {"ether_slirp", "ether_drift"} /\ netmode[c] # "none"
    <2>1. prefs' = [prefs EXCEPT ![c] = <<netmode[c]>>] /\ UNCHANGED <<netmode, up, env, agent, disk>>
      BY <1>11 DEF Fix
    <2> HIDE DEF c
    <2>2. <<netmode[c]>> \in Prefs /\ LastEther(<<netmode[c]>>) = netmode[c]
      BY <1>1, <1>2, <1>11, EtherIs
    <2> QED
      BY <1>1, <1>2, <2>1, <2>2 DEF Slirped
  <1>12. CASE key = "etherhelper_dead"
    <2>1. PICK t \in BOOLEAN : t
      BY Zenon
    <2>2. /\ up' = [e \in Emulator |-> IF up[e].ether = "bridge" THEN [up[e] EXCEPT !.helper = t] ELSE up[e]]
          /\ UNCHANGED <<prefs, netmode, env, agent, disk>>
      BY <1>12, <2>1 DEF Fix
    <2>3. ASSUME NEW x \in Emulator
          PROVE  up'[x] \in Running /\ (up'[x] # Off => up[x] # Off /\ up'[x].work = up[x].work)
      <3>1. CASE up[x].ether = "bridge"
        <4>1. up'[x] = [up[x] EXCEPT !.helper = t] /\ up[x] # Off
          BY <2>2, <3>1 DEF Off
        <4>2. up[x] \in [ether : Backend \union {"none"}, work : BOOLEAN, helper : BOOLEAN]
          BY <1>1, <4>1 DEF Running
        <4> QED
          BY <2>1, <4>1, <4>2 DEF Running
      <3>2. CASE up[x].ether # "bridge"
        BY <1>1, <2>2, <3>2
      <3> QED
        BY <3>1, <3>2
    <2>4. up' \in [Emulator -> Running]
      BY <2>2, <2>3
    <2> QED
      BY <1>1, <2>2, <2>3, <2>4 DEF Slirped
  <1>13. CASE key \notin {"launchd_disabled", "launchd_absent", "host_server_not_running", "host_ip_missing",
                          "host_ip_duplicate", "host_ip_wrong_interface", "local_env_has_host_ip",
                          "emulator_app_stale", "deploy_missing", "guest_ip_stale", "ether_slirp", "ether_drift",
                          "etherhelper_dead"}
              \/ (key = "ether_drift" /\ netmode[c] = "none")
    <2>1. UNCHANGED <<prefs, netmode, up, env, agent, disk>>
      BY <1>13 DEF Fix
    <2> QED
      BY <1>1, <2>1 DEF Slirped
  <1> QED
    BY <1>3, <1>4, <1>5, <1>6, <1>7, <1>8, <1>9, <1>10, <1>11, <1>12, <1>13

\* The advice is followed.
LEMMA FollowIs ==
    ASSUME HostTypeOK, FollowAdvice
    PROVE  /\ MachineTypeOK' /\ supply' \in Supply /\ DoctorTypeOK' /\ doctor'.done = FALSE
           /\ doctor.pc = "idle" /\ doctor'.pc = "idle"
           /\ \A e \in Emulator : Slirped(e) => Slirped(e)'
           /\ \A x \in Emulator : up'[x] # Off => up[x] # Off /\ up'[x].work = up[x].work
           /\ disk'["kit"] = disk["kit"] /\ disk'["work"].baked = disk["work"].baked
           /\ disk'["work"].strange = disk["work"].strange
           /\ UNCHANGED <<newest, bundle, vol>>
  <1>1. PICK key \in ShortReason : Fix(key)
    BY DEF FollowAdvice
  <1>2. supply' \in Supply
    BY SpendsIs DEF FollowAdvice, HostTypeOK, InstallTypeOK
  <1>3. PICK f \in BOOLEAN : ~f
    BY Zenon
  <1>4. doctor' = [doctor EXCEPT !.done = f, !.report = {}] /\ doctor \in DoctorState /\ doctor.pc = "idle"
        /\ UNCHANGED <<newest, bundle, vol>>
    BY <1>3 DEF FollowAdvice, HostTypeOK, DoctorTypeOK
  <1>5. DoctorTypeOK' /\ doctor'.done = FALSE /\ doctor'.pc = "idle"
    BY <1>3, <1>4 DEF DoctorTypeOK, DoctorState
  <1> QED
    BY <1>1, <1>2, <1>4, <1>5, FixIs DEF HostTypeOK, MachineTypeOK

-----------------------------------------------------------------------------
(* The table, its agents, and the guests that dial them *)

\* The first port's label is no name of a row.
LEMMA LabelIs ==
    /\ \A r \in Row : LabelOf(r) \in Label /\ AgentOf(r).state = "loaded" /\ AgentOf(r).name = r.name /\ AgentOf(r).port = r.port
                      /\ AgentOf(r) \in [state : {"none", "file", "loaded"}, name : Name \union {""}, port : Port]
    /\ \A t \in SUBSET Row : Valid(t) => \A r, s \in t : LabelOf(r) = LabelOf(s) => r = s
  BY DEF LabelOf, Label, Row, Name, Port, AgentOf, Valid

\* What the table was edited to.
LEMMA EditKeeps ==
    ASSUME TableInd, supply \in Supply, NEW t \in Tables, Edit(t)
    PROVE  TableInd' /\ supply' \in Supply
  <1>1. supply' \in Supply
    BY SpendsIs DEF Edit
  <1>2. PICK f \in BOOLEAN : ~f
    BY Zenon
  <1>3. /\ table' = t /\ job' = [job EXCEPT !.good = f, !.fixed = f] /\ call' = [call EXCEPT !.sure = f]
        /\ UNCHANGED <<agents, holder, link, hello, conf>>
    BY <1>2 DEF Edit
  <1>4. TableTypeOK
    BY DEF TableInd
  <1>5. TableTypeOK' /\ job'.fixed = f /\ job'.good = f /\ call'.sure = f /\ job'.pc = job.pc
        /\ job'.rows = job.rows /\ job'.drop = job.drop
    BY <1>3, <1>4, TableAssumption DEF TableTypeOK, TableAssumption, JobState, CallState
  <1>6. HolderFits' /\ LinkFits'
    BY <1>3 DEF TableInd, HolderFits, LinkFits
  <1>7. JobFits' /\ CallFits'
    BY <1>2, <1>5 DEF TableInd, JobFits, CallFits
  <1> QED
    BY <1>1, <1>5, <1>6, <1>7 DEF TableInd

\* install_guests.py begins: all rows, or those that are named.
LEMMA StartJobKeeps ==
    ASSUME TableInd, supply \in Supply, NEW only \in SUBSET Name, StartJob(only)
    PROVE  TableInd' /\ supply' \in Supply
  <1>1. supply' \in Supply
    BY SpendsIs DEF StartJob
  <1> DEFINE rows == IF only = {} THEN table ELSE {r \in table : r.name \in only}
             drop == Dropped(rows, only = {})
  <1>2. PICK t \in BOOLEAN, f \in BOOLEAN, all \in BOOLEAN : t /\ ~f /\ all = (only = {})
    BY Zenon
  <1>3. /\ job' = [pc |-> "work", all |-> all, rows |-> rows, drop |-> drop, good |-> t, fixed |-> f]
        /\ UNCHANGED <<table, agents, holder, link, hello, conf, call>> /\ Valid(table)
    BY <1>2 DEF StartJob
  <1>4. TableTypeOK /\ table \in SUBSET Row
    BY DEF TableInd, TableTypeOK
  <1>5. /\ rows \subseteq table /\ drop \subseteq Label /\ drop \cap {LabelOf(r) : r \in rows} = {}
        /\ all => rows = table /\ \A l \in Label : agents[l].state # "none" =>
                        l \in drop \/ \E r \in table : LabelOf(r) = l
        /\ ~all => drop = {}
    BY <1>2 DEF Dropped, Installed
  <1>6. drop \cap {LabelOf(r) : r \in table} = {}
    BY <1>5
  <1> HIDE DEF rows, drop
  <1>7. TableTypeOK' /\ job'.pc = "work" /\ job'.all = all /\ job'.rows = rows /\ job'.drop = drop
        /\ job'.good = t /\ job'.fixed = f
    BY <1>3, <1>4, <1>5 DEF TableTypeOK, JobState
  <1>8. HolderFits' /\ LinkFits'
    BY <1>3 DEF TableInd, HolderFits, LinkFits
  <1>9. JobFits'
    BY <1>2, <1>3, <1>5, <1>6, <1>7 DEF JobFits, RowsFit
  <1>10. CallFits'
    BY <1>3, <1>5, <1>7 DEF TableInd, CallFits, AgentsFit
  <1> QED
    BY <1>1, <1>7, <1>8, <1>9, <1>10 DEF TableInd

\* The instance of a label ends, and the connection it has; its agent is another.
LEMMA EndsKeeps ==
    ASSUME TableInd, NEW l \in Label, Ends(l), UNCHANGED hello,
           \A x \in Label : x # l => agents'[x] = agents[x]
    PROVE  /\ HolderFits' /\ LinkFits'
           /\ holder' \in [Port -> Label \union {"nobody"}]
           /\ link' \in [Port -> [guest : Guest \union {"nobody"}, said : Name \union {""}]]
  <1>1. /\ holder \in [Port -> Label \union {"nobody"}]
        /\ link \in [Port -> [guest : Guest \union {"nobody"}, said : Name \union {""}]]
    BY DEF TableInd, TableTypeOK
  <1>2. /\ \A p \in Port : holder'[p] = IF holder[p] = l THEN "nobody" ELSE holder[p]
        /\ \A p \in Port : link'[p] = IF holder[p] = l THEN NoLink ELSE link[p]
        /\ holder' \in [Port -> Label \union {"nobody"}]
        /\ link' \in [Port -> [guest : Guest \union {"nobody"}, said : Name \union {""}]]
    BY <1>1 DEF Ends, NoLink
  <1>3. /\ \A p \in Port : holder[p] # "nobody" => agents[holder[p]].state = "loaded" /\ agents[holder[p]].port = p
        /\ \A p \in Port : link[p] # NoLink =>
                /\ holder[p] # "nobody" /\ link[p].said \in {"", agents[holder[p]].name}
                /\ hello[holder[p]] = IF link[p].said = "" THEN "nameless" ELSE "ok"
    BY DEF TableInd, HolderFits, LinkFits
  <1>4. ASSUME NEW p \in Port, holder'[p] # "nobody"
        PROVE  /\ agents'[holder'[p]].state = "loaded" /\ agents'[holder'[p]].port = p
               /\ link'[p] # NoLink =>
                    /\ link'[p].said \in {"", agents'[holder'[p]].name}
                    /\ hello'[holder'[p]] = IF link'[p].said = "" THEN "nameless" ELSE "ok"
    <2>1. holder[p] # l /\ holder'[p] = holder[p] /\ link'[p] = link[p] /\ holder[p] \in Label
      BY <1>1, <1>2, <1>4
    <2>2. agents'[holder'[p]] = agents[holder[p]] /\ hello'[holder'[p]] = hello[holder[p]]
      BY <2>1
    <2>3. agents[holder[p]].state = "loaded" /\ agents[holder[p]].port = p
      BY <1>3, <1>4, <2>1
    <2>4. link[p] # NoLink => /\ link[p].said \in {"", agents[holder[p]].name}
                              /\ hello[holder[p]] = IF link[p].said = "" THEN "nameless" ELSE "ok"
      BY <1>3
    <2> QED
      BY <2>1, <2>2, <2>3, <2>4
  <1>5. ASSUME NEW p \in Port, holder'[p] = "nobody"
        PROVE  link'[p] = NoLink
    BY <1>2, <1>3, <1>5
  <1>6. HolderFits' /\ LinkFits'
    BY <1>4, <1>5 DEF HolderFits, LinkFits
  <1> QED
    BY <1>2, <1>6

\* An agent that is no longer in the table is removed.
LEMMA BootOutKeeps ==
    ASSUME TableInd, supply \in Supply, NEW l \in Label, BootOut(l)
    PROVE  TableInd' /\ supply' \in Supply
  <1>1. /\ job.pc = "work" /\ l \in job.drop /\ agents' = [agents EXCEPT ![l] = NoAgentFile] /\ Ends(l)
        /\ job' = [job EXCEPT !.drop = job.drop \ {l}] /\ UNCHANGED <<table, hello, conf, call, supply>>
    BY DEF BootOut
  <1>2. TableTypeOK /\ agents \in [Label -> [state : {"none", "file", "loaded"}, name : Name \union {""}, port : Port]]
    BY DEF TableInd, TableTypeOK
  <1>3. agents'[l].state = "none" /\ (\A x \in Label : x # l => agents'[x] = agents[x])
        /\ agents' \in [Label -> [state : {"none", "file", "loaded"}, name : Name \union {""}, port : Port]]
    BY <1>1, <1>2 DEF NoAgentFile, Port
  <1>4. HolderFits' /\ LinkFits' /\ holder' \in [Port -> Label \union {"nobody"}]
        /\ link' \in [Port -> [guest : Guest \union {"nobody"}, said : Name \union {""}]]
    BY <1>1, <1>3, EndsKeeps
  <1>5. TableTypeOK' /\ job'.pc = "work" /\ job'.drop = job.drop \ {l} /\ job'.rows = job.rows
        /\ job'.all = job.all /\ job'.good = job.good /\ job'.fixed = job.fixed
    BY <1>1, <1>2, <1>3, <1>4 DEF TableTypeOK, JobState
  <1>6. JobFits'
    <2>1. ~job.fixed
      BY <1>1 DEF TableInd, JobFits
    <2>2. ASSUME job.good
          PROVE  /\ Valid(table) /\ job.rows \subseteq table /\ job'.drop \cap {LabelOf(r) : r \in table} = {}
                 /\ job.all => /\ \A s \in table \ job.rows : agents'[LabelOf(s)] = AgentOf(s)
                               /\ \A x \in Label : agents'[x].state # "none" =>
                                        x \in job'.drop \/ \E s \in table : LabelOf(s) = x
      <3>1. /\ Valid(table) /\ job.rows \subseteq table /\ job.drop \cap {LabelOf(r) : r \in table} = {}
            /\ job.all => /\ \A s \in table \ job.rows : agents[LabelOf(s)] = AgentOf(s)
                          /\ \A x \in Label : agents[x].state # "none" => x \in job.drop \/ \E s \in table : LabelOf(s) = x
        BY <1>1, <2>2 DEF TableInd, JobFits, RowsFit
      <3>2. ASSUME NEW s \in table
            PROVE  LabelOf(s) \in Label /\ LabelOf(s) # l
        <4>1. LabelOf(s) \in Label
          BY <1>2, LabelIs DEF TableTypeOK
        <4>2. LabelOf(s) \in {LabelOf(r) : r \in table}
          OBVIOUS
        <4> QED
          BY <1>1, <3>1, <4>1, <4>2
      <3> QED
        BY <1>3, <1>5, <3>1, <3>2
    <2> QED
      BY <1>1, <1>5, <2>1, <2>2 DEF JobFits, RowsFit
  <1>7. CallFits'
    <2>1. call.sure => /\ Valid(table) /\ job.rows \subseteq table
                       /\ \A x \in Label : agents[x].state # "none" =>
                            \E s \in table : LabelOf(s) = x /\ agents[x].name = s.name /\ agents[x].port = s.port
      BY DEF TableInd, CallFits, AgentsFit
    <2>2. ASSUME call.sure, NEW x \in Label, agents'[x].state # "none"
          PROVE  \E s \in table : LabelOf(s) = x /\ agents'[x].name = s.name /\ agents'[x].port = s.port
      <3>1. agents'[x] = agents[x] /\ agents[x].state # "none"
        BY <1>3, <2>2
      <3>2. PICK s \in table : LabelOf(s) = x /\ agents[x].name = s.name /\ agents[x].port = s.port
        BY <2>1, <2>2, <3>1
      <3>3. LabelOf(s) = x /\ agents'[x].name = s.name /\ agents'[x].port = s.port
        BY <3>1, <3>2
      <3> QED
        BY <3>3
    <2> QED
      BY <1>1, <1>5, <2>1, <2>2 DEF TableInd, CallFits, AgentsFit
  <1> QED
    BY <1>1, <1>4, <1>5, <1>6, <1>7 DEF TableInd

\* The agent of a row is written, and loaded unless launchd refuses.
LEMMA WriteAgentKeeps ==
    ASSUME TableInd, supply \in Supply, NEW r \in job.rows, NEW fault \in BOOLEAN, WriteAgent(r, fault)
    PROVE  TableInd' /\ supply' \in Supply
  <1> DEFINE l == LabelOf(r)
             a == [AgentOf(r) EXCEPT !.state = IF fault THEN "file" ELSE "loaded"]
  <1>1. supply' \in Supply
    BY SpendsIs DEF WriteAgent
  <1>2. PICK g \in BOOLEAN : g = (job.good /\ ~fault)
    BY Zenon
  <1>3. /\ job.pc = "work" /\ job.drop = {} /\ agents' = [agents EXCEPT ![l] = a] /\ Ends(l)
        /\ job' = [job EXCEPT !.rows = job.rows \ {r}, !.good = g] /\ UNCHANGED <<table, hello, conf, call>>
    BY <1>2 DEF WriteAgent
  <1>4. TableTypeOK /\ r \in Row /\ job \in JobState /\ table \in SUBSET Row
        /\ agents \in [Label -> [state : {"none", "file", "loaded"}, name : Name \union {""}, port : Port]]
    BY DEF TableInd, TableTypeOK, JobState
  <1>5. /\ l \in Label /\ a \in [state : {"none", "file", "loaded"}, name : Name \union {""}, port : Port]
        /\ a.name = r.name /\ a.port = r.port /\ (~fault => a = AgentOf(r)) /\ a.state # "none"
    BY <1>4, LabelIs DEF AgentOf, Row
  <1> HIDE DEF a, l
  <1>6. agents'[l] = a /\ (\A x \in Label : x # l => agents'[x] = agents[x])
        /\ agents' \in [Label -> [state : {"none", "file", "loaded"}, name : Name \union {""}, port : Port]]
    BY <1>3, <1>4, <1>5
  <1>7. HolderFits' /\ LinkFits' /\ holder' \in [Port -> Label \union {"nobody"}]
        /\ link' \in [Port -> [guest : Guest \union {"nobody"}, said : Name \union {""}]]
    BY <1>3, <1>5, <1>6, EndsKeeps
  <1>8. TableTypeOK' /\ job'.pc = "work" /\ job'.drop = {} /\ job'.rows = job.rows \ {r}
        /\ job'.all = job.all /\ job'.good = g /\ job'.fixed = job.fixed
    BY <1>3, <1>4, <1>6, <1>7 DEF TableTypeOK, JobState
  <1>9. ~job.fixed
    BY <1>3 DEF TableInd, JobFits
  <1>10. JobFits'
    <2>1. ASSUME job'.good
          PROVE  /\ Valid(table) /\ job'.rows \subseteq table
                 /\ job.all => /\ \A s \in table \ job'.rows : agents'[LabelOf(s)] = AgentOf(s)
                               /\ \A x \in Label : agents'[x].state # "none" => \E s \in table : LabelOf(s) = x
      <3>1. job.good /\ ~fault
        BY <1>2, <1>8, <2>1
      <3>2. /\ Valid(table) /\ job.rows \subseteq table
            /\ job.all => /\ \A s \in table \ job.rows : agents[LabelOf(s)] = AgentOf(s)
                          /\ \A x \in Label : agents[x].state # "none" => x \in job.drop \/ \E s \in table : LabelOf(s) = x
        BY <1>3, <3>1 DEF TableInd, JobFits, RowsFit
      <3>3. \A s \in table : LabelOf(s) \in Label /\ (LabelOf(s) = l => s = r)
        BY <1>4, <3>2, LabelIs DEF l
      <3>4. \A s \in table \ job'.rows : s = r \/ s \in table \ job.rows
        BY <1>8
      <3>5. job.all => \A s \in table \ job'.rows : agents'[LabelOf(s)] = AgentOf(s)
        <4>1. agents'[LabelOf(r)] = AgentOf(r)
          BY <1>5, <1>6, <3>1 DEF l
        <4> QED
          BY <1>6, <3>2, <3>3, <3>4, <4>1
      <3>6. r \in table
        BY <3>2
      <3> QED
        BY <1>3, <1>6, <1>8, <3>2, <3>5, <3>6 DEF l
    <2> QED
      BY <1>3, <1>8, <1>9, <2>1 DEF JobFits, RowsFit
  <1>11. CallFits'
    <2>1. call.sure => /\ Valid(table) /\ job.rows \subseteq table /\ r \in table
                       /\ \A x \in Label : agents[x].state # "none" =>
                            \E s \in table : LabelOf(s) = x /\ agents[x].name = s.name /\ agents[x].port = s.port
      BY DEF TableInd, CallFits, AgentsFit
    <2>2. ASSUME call.sure, NEW x \in Label, agents'[x].state # "none"
          PROVE  \E s \in table : LabelOf(s) = x /\ agents'[x].name = s.name /\ agents'[x].port = s.port
      <3>1. CASE x = l
        <4>1. LabelOf(r) = x /\ agents'[x].name = r.name /\ agents'[x].port = r.port /\ r \in table
          BY <1>5, <1>6, <2>1, <2>2, <3>1 DEF l
        <4> QED
          BY <4>1
      <3>2. CASE x # l
        <4>1. agents'[x] = agents[x] /\ agents[x].state # "none"
          BY <1>6, <2>2, <3>2
        <4>2. PICK s \in table : LabelOf(s) = x /\ agents[x].name = s.name /\ agents[x].port = s.port
          BY <2>1, <2>2, <4>1
        <4>3. LabelOf(s) = x /\ agents'[x].name = s.name /\ agents'[x].port = s.port
          BY <4>1, <4>2
        <4> QED
          BY <4>3
      <3> QED
        BY <3>1, <3>2
    <2> QED
      BY <1>3, <1>8, <2>1, <2>2 DEF TableInd, CallFits, AgentsFit
  <1> QED
    BY <1>1, <1>7, <1>8, <1>10, <1>11 DEF TableInd

\* It is over, or killed.
LEMMA JobEndsKeeps ==
    ASSUME TableInd, supply \in Supply, EndJob \/ KillJob
    PROVE  TableInd' /\ supply' \in Supply
  <1>1. supply' \in Supply
    BY SpendsIs DEF EndJob, KillJob
  <1>2. UNCHANGED <<table, agents, holder, link, hello, conf, call>> /\ job.pc = "work" /\ ~job.fixed
    BY DEF EndJob, KillJob, TableInd, JobFits
  <1>3. HolderFits' /\ LinkFits' /\ TableTypeOK /\ job \in JobState
    BY <1>2 DEF TableInd, HolderFits, LinkFits, TableTypeOK
  <1>4. job' \in JobState /\ JobFits' /\ job'.rows \subseteq job.rows
    <2>1. CASE EndJob
      <3>1. PICK x \in BOOLEAN : x = (job.all /\ job.good)
        BY Zenon
      <3>2. job' = [job EXCEPT !.pc = "idle", !.fixed = x] /\ job.drop = {} /\ job.rows = {}
        BY <2>1, <3>1 DEF EndJob
      <3>3. job' \in JobState /\ job'.pc = "idle" /\ job'.fixed = x /\ job'.rows = {} /\ job'.drop = {}
        BY <1>3, <3>2 DEF JobState
      <3>4. ASSUME x
            PROVE  Valid(table) /\ AgentsFit /\ RowsFit(table)
        <4>1. /\ Valid(table) /\ RowsFit(table)
              /\ \A l \in Label : agents[l].state # "none" => \E r \in table : LabelOf(r) = l
          BY <1>2, <3>1, <3>2, <3>4 DEF TableInd, JobFits, RowsFit
        <4>2. ASSUME NEW r \in table
              PROVE  agents[LabelOf(r)].name = r.name /\ agents[LabelOf(r)].port = r.port
          <5>1. r \in Row /\ agents[LabelOf(r)] = AgentOf(r)
            BY <1>3, <4>1 DEF RowsFit, TableTypeOK
          <5> QED
            BY <5>1, LabelIs
        <4> QED
          BY <4>1, <4>2 DEF AgentsFit
      <3> QED
        BY <1>2, <3>1, <3>3, <3>4 DEF JobFits, RowsFit, AgentsFit
    <2>2. CASE KillJob
      <3>1. PICK f \in BOOLEAN : ~f
        BY Zenon
      <3>2. job' = [job EXCEPT !.pc = "idle", !.rows = {}, !.drop = {}, !.good = f]
        BY <2>2, <3>1 DEF KillJob
      <3>3. job' \in JobState /\ job'.pc = "idle" /\ job'.fixed = job.fixed /\ job'.rows = {} /\ job'.drop = {}
        BY <1>3, <3>2 DEF JobState
      <3> QED
        BY <1>2, <3>3 DEF JobFits
    <2> QED
      BY <2>1, <2>2
  <1>5. TableTypeOK'
    BY <1>2, <1>3, <1>4 DEF TableTypeOK
  <1>6. CallFits'
    BY <1>2, <1>4 DEF TableInd, CallFits, AgentsFit
  <1> QED
    BY <1>1, <1>3, <1>4, <1>5, <1>6 DEF TableInd

\* What is said of the agents and the calls needs no more than these.
LEMMA JobAndCallKept ==
    ASSUME TableInd, UNCHANGED <<table, agents, job>>
    PROVE  JobFits' /\ (call' = call => CallFits')
  BY DEF TableInd, JobFits, RowsFit, CallFits, AgentsFit

\* An instance binds its port.
LEMMA BindKeeps ==
    ASSUME TableInd, NEW l \in Label, Bind(l)
    PROVE  TableInd'
  <1> DEFINE p == agents[l].port
  <1>1. /\ agents[l].state = "loaded" /\ holder[p] = "nobody" /\ holder' = [holder EXCEPT ![p] = l]
        /\ UNCHANGED <<table, agents, link, hello, conf, job, call, supply>>
    BY DEF Bind
  <1>2. TableTypeOK /\ holder \in [Port -> Label \union {"nobody"}] /\ p \in Port
    BY DEF TableInd, TableTypeOK
  <1>3. /\ \A q \in Port : holder[q] # "nobody" => agents[holder[q]].state = "loaded" /\ agents[holder[q]].port = q
        /\ \A q \in Port : link[q] # NoLink =>
                /\ holder[q] # "nobody" /\ link[q].said \in {"", agents[holder[q]].name}
                /\ hello[holder[q]] = IF link[q].said = "" THEN "nameless" ELSE "ok"
    BY DEF TableInd, HolderFits, LinkFits
  <1>4. agents[l].port = p
    OBVIOUS
  <1> HIDE DEF p
  <1>5. holder'[p] = l /\ (\A q \in Port : q # p => holder'[q] = holder[q]) /\ holder' \in [Port -> Label \union {"nobody"}]
    BY <1>1, <1>2
  <1>6. TableTypeOK'
    BY <1>1, <1>2, <1>5 DEF TableTypeOK
  <1>7. HolderFits'
    BY <1>1, <1>3, <1>4, <1>5 DEF HolderFits
  <1>8. ASSUME NEW q \in Port, link[q] # NoLink
        PROVE  /\ holder'[q] # "nobody" /\ link[q].said \in {"", agents[holder'[q]].name}
               /\ hello[holder'[q]] = IF link[q].said = "" THEN "nameless" ELSE "ok"
    <2>1. q # p
      BY <1>1, <1>3, <1>8
    <2>2. holder'[q] = holder[q]
      BY <1>5, <2>1
    <2>3. /\ holder[q] # "nobody" /\ link[q].said \in {"", agents[holder[q]].name}
          /\ hello[holder[q]] = IF link[q].said = "" THEN "nameless" ELSE "ok"
      BY <1>8 DEF TableInd, LinkFits
    <2> QED
      BY <2>2, <2>3
  <1>9. LinkFits'
    BY <1>1, <1>8 DEF LinkFits
  <1> QED
    BY <1>1, <1>6, <1>7, <1>9, JobAndCallKept DEF TableInd

\* A guest dials, and is linked unless it tells another name.
LEMMA DialKeeps ==
    ASSUME TableInd, supply \in Supply, NEW g \in Guest, NEW heard \in BOOLEAN, Dial(g, heard)
    PROVE  TableInd' /\ supply' \in Supply
  <1> DEFINE p == conf[g].port
             l == holder[p]
             name == IF heard THEN conf[g].name ELSE ""
             verdict == NameVerdict(agents[l].name, name)
             new == [guest |-> g, said |-> name]
  <1>1. supply' \in Supply
    BY SpendsIs DEF Dial
  <1>2. /\ l # "nobody" /\ link[p] = NoLink /\ hello' = [hello EXCEPT ![l] = verdict]
        /\ link' = IF verdict = "refused" THEN link ELSE [link EXCEPT ![p] = new]
        /\ UNCHANGED <<table, agents, holder, conf, job, call>>
    BY DEF Dial, LastHello
  <1>3. /\ TableTypeOK /\ holder \in [Port -> Label \union {"nobody"}] /\ conf[g] \in Conf
        /\ hello \in [Label -> {"none", "ok", "nameless", "refused"}]
        /\ link \in [Port -> [guest : Guest \union {"nobody"}, said : Name \union {""}]]
    BY DEF TableInd, TableTypeOK
  <1>4. p \in Port /\ name \in Name \union {""} /\ new \in [guest : Guest \union {"nobody"}, said : Name \union {""}]
    BY <1>3 DEF Conf
  <1>5. /\ l \in Label /\ verdict \in {"ok", "nameless", "refused"} /\ new.said = name
        /\ verdict # "refused" => name \in {"", agents[l].name} /\ verdict = IF name = "" THEN "nameless" ELSE "ok"
    BY <1>2, <1>3, <1>4 DEF NameVerdict
  <1>6. /\ \A q \in Port : holder[q] # "nobody" => agents[holder[q]].state = "loaded" /\ agents[holder[q]].port = q
        /\ \A q \in Port : link[q] # NoLink =>
                /\ holder[q] # "nobody" /\ link[q].said \in {"", agents[holder[q]].name}
                /\ hello[holder[q]] = IF link[q].said = "" THEN "nameless" ELSE "ok"
    BY DEF TableInd, HolderFits, LinkFits
  <1>7. l = holder[p]
    OBVIOUS
  <1> HIDE DEF p, l, name, verdict, new
  <1>8. TableTypeOK'
    BY <1>2, <1>3, <1>4, <1>5 DEF TableTypeOK
  <1>9. HolderFits'
    BY <1>2 DEF TableInd, HolderFits
  <1>10. ASSUME NEW q \in Port, link'[q] # NoLink
         PROVE  /\ holder[q] # "nobody" /\ link'[q].said \in {"", agents[holder[q]].name}
                /\ hello'[holder[q]] = IF link'[q].said = "" THEN "nameless" ELSE "ok"
    <2>1. CASE q = p
      <3>1. verdict # "refused" /\ link'[q] = new
        BY <1>2, <1>3, <1>4, <1>10, <2>1
      <3>2. hello'[l] = verdict
        BY <1>2, <1>3, <1>5
      <3> QED
        BY <1>2, <1>5, <1>7, <2>1, <3>1, <3>2
    <2>2. CASE q # p
      <3>1. link'[q] = link[q]
        BY <1>2, <1>3, <1>4, <2>2
      <3>2. holder[q] # "nobody" /\ holder[q] # l /\ holder[q] \in Label
        <4>1. holder[q] # "nobody"
          BY <1>10, <3>1 DEF TableInd, LinkFits
        <4>3. holder[q] \in Label
          BY <1>3, <4>1
        <4>2. agents[holder[q]].port = q /\ agents[l].port = p
          BY <1>2, <1>4, <1>6, <1>7, <4>1
        <4> QED
          BY <2>2, <4>1, <4>2, <4>3
      <3>3. hello'[holder[q]] = hello[holder[q]]
        BY <1>2, <1>3, <3>2
      <3> QED
        BY <1>6, <1>10, <3>1, <3>2, <3>3
    <2> QED
      BY <2>1, <2>2
  <1>11. LinkFits'
    BY <1>2, <1>10 DEF LinkFits
  <1> QED
    BY <1>1, <1>2, <1>8, <1>9, <1>11, JobAndCallKept DEF TableInd

\* A connection ends, or a guest's prefs are edited.
LEMMA HangKeeps ==
    ASSUME TableInd, supply \in Supply,
           (\E p \in Port : Hang(p)) \/ (\E g \in Guest, c \in Confs : Reconfigure(g, c))
    PROVE  TableInd' /\ supply' \in Supply
  <1>1. supply' \in Supply
    BY SpendsIs DEF Hang, Reconfigure
  <1>2. UNCHANGED <<table, agents, holder, hello, job, call>>
    BY DEF Hang, Reconfigure
  <1>3. /\ TableTypeOK /\ conf \in [Guest -> Conf]
        /\ link \in [Port -> [guest : Guest \union {"nobody"}, said : Name \union {""}]]
    BY DEF TableInd, TableTypeOK
  <1>4. /\ link' \in [Port -> [guest : Guest \union {"nobody"}, said : Name \union {""}]]
        /\ conf' \in [Guest -> Conf] /\ \A q \in Port : link'[q] \in {NoLink, link[q]}
    <2>1. CASE \E p \in Port : Hang(p)
      <3>1. PICK p \in Port : link' = [link EXCEPT ![p] = NoLink] /\ conf' = conf
        BY <2>1 DEF Hang
      <3>2. NoLink \in [guest : Guest \union {"nobody"}, said : Name \union {""}]
        BY DEF NoLink
      <3> QED
        BY <1>3, <3>1, <3>2
    <2>2. CASE \E g \in Guest, c \in Confs : Reconfigure(g, c)
      <3>1. PICK g \in Guest, c \in Confs : conf' = [conf EXCEPT ![g] = c] /\ link' = link
        BY <2>2 DEF Reconfigure
      <3>2. c \in Conf
        BY <3>1, TableAssumption DEF TableAssumption
      <3> QED
        BY <1>3, <3>1, <3>2
    <2> QED
      BY <2>1, <2>2
  <1>5. TableTypeOK'
    BY <1>2, <1>3, <1>4 DEF TableTypeOK
  <1>6. HolderFits'
    BY <1>2 DEF TableInd, HolderFits
  <1>7. ASSUME NEW q \in Port, link'[q] # NoLink
        PROVE  link'[q] = link[q] /\ link[q] # NoLink
    BY <1>4, <1>7
  <1>8. LinkFits'
    BY <1>2, <1>7 DEF TableInd, LinkFits
  <1> QED
    BY <1>1, <1>2, <1>5, <1>6, <1>8, JobAndCallKept DEF TableInd

\* A tool call is made, and carried out at the port that its row has.
LEMMA CallKeeps ==
    ASSUME TableInd, supply \in Supply, (\E n \in Name : Call(n)) \/ Execute
    PROVE  TableInd' /\ supply' \in Supply
  <1>1. supply' \in Supply
    BY SpendsIs DEF Call, Execute
  <1>2. UNCHANGED <<table, agents, holder, link, hello, conf, job>>
    BY DEF Call, Execute
  <1>3. /\ TableTypeOK /\ call \in CallState /\ job.fixed \in BOOLEAN /\ table \in SUBSET Row
        /\ link \in [Port -> [guest : Guest \union {"nobody"}, said : Name \union {""}]]
        /\ holder \in [Port -> Label \union {"nobody"}]
    BY DEF TableInd, TableTypeOK, JobState
  <1>4. CASE \E n \in Name : Call(n)
    <2>1. PICK n \in Name : Call(n)
      BY <1>4
    <2>2. PICK r \in table : r.name = n /\ call' = [pc |-> "sent", asked |-> n, port |-> r.port, sure |-> job.fixed, said |-> ""]
      BY <2>1 DEF Call
    <2>3. r \in Row /\ r.port \in Port
      BY <1>3 DEF Row
    <2>4. call' \in CallState /\ call'.pc = "sent" /\ call'.asked = n /\ call'.port = r.port /\ call'.sure = job.fixed
      BY <1>3, <2>2, <2>3 DEF CallState
    <2>5. job.fixed => Valid(table) /\ AgentsFit /\ job.rows = {}
      BY DEF TableInd, JobFits
    <2>6. CallFits'
      BY <1>2, <2>2, <2>4, <2>5 DEF CallFits, AgentsFit
    <2>7. TableTypeOK'
      BY <1>2, <1>3, <2>4 DEF TableTypeOK
    <2> QED
      BY <1>1, <1>2, <2>6, <2>7, JobAndCallKept DEF TableInd, HolderFits, LinkFits
  <1>5. CASE Execute
    <2>1. call.pc = "sent" /\ call' = IF link[call.port] = NoLink THEN [call EXCEPT !.pc = "idle"]
                                      ELSE [call EXCEPT !.pc = "done", !.said = link[call.port].said]
      BY <1>5 DEF Execute
    <2>2. call.port \in Port /\ link[call.port].said \in Name \union {""}
      BY <1>3 DEF CallState
    <2>3. /\ call' \in CallState /\ call'.asked = call.asked /\ call'.sure = call.sure /\ call'.pc # "sent"
          /\ call'.pc = "done" => link[call.port] # NoLink /\ call'.said = link[call.port].said
      BY <1>3, <2>1, <2>2 DEF CallState
    <2>4. ASSUME call.sure, call'.pc = "done"
          PROVE  call'.said \in {call.asked, ""}
      <3>1. Valid(table) /\ AgentsFit /\ \E r \in table : r.name = call.asked /\ r.port = call.port
        BY <2>1, <2>4 DEF TableInd, CallFits
      <3>2. PICK r \in table : r.name = call.asked /\ r.port = call.port
        BY <3>1
      <3> DEFINE l == holder[call.port]
      <3>3. l # "nobody" /\ call'.said \in {"", agents[l].name} /\ agents[l].state = "loaded" /\ agents[l].port = call.port
        BY <2>2, <2>3, <2>4 DEF TableInd, LinkFits, HolderFits
      <3>4. l \in Label
        BY <1>3, <2>2, <3>3
      <3>5. PICK s \in table : agents[l].name = s.name /\ agents[l].port = s.port
        BY <3>1, <3>3, <3>4 DEF AgentsFit
      <3>6. r = s
        BY <3>1, <3>2, <3>3, <3>5 DEF Valid
      <3> QED
        BY <3>2, <3>3, <3>5, <3>6
    <2>5. CallFits'
      BY <1>2, <2>3, <2>4 DEF TableInd, CallFits, AgentsFit
    <2>6. TableTypeOK'
      BY <1>2, <1>3, <2>3 DEF TableTypeOK
    <2> QED
      BY <1>1, <1>2, <2>5, <2>6, JobAndCallKept DEF TableInd, HolderFits, LinkFits
  <1> QED
    BY <1>4, <1>5

\* Whatever happens to the table and its guests.
LEMMA TableNextKeeps ==
    ASSUME TableInd, supply \in Supply, TableNext
    PROVE  TableInd' /\ supply' \in Supply
  <1>1. ASSUME NEW l \in Label, Bind(l)
        PROVE  TableInd' /\ supply' \in Supply
    BY <1>1, BindKeeps DEF Bind
  <1>2. ASSUME NEW l \in Label, BootOut(l)
        PROVE  TableInd' /\ supply' \in Supply
    BY <1>2, BootOutKeeps
  <1>3. ASSUME NEW r \in job.rows, NEW fault \in BOOLEAN, WriteAgent(r, fault)
        PROVE  TableInd' /\ supply' \in Supply
    BY <1>3, WriteAgentKeeps
  <1>4. ASSUME NEW g \in Guest, NEW heard \in BOOLEAN, Dial(g, heard)
        PROVE  TableInd' /\ supply' \in Supply
    BY <1>4, DialKeeps
  <1> QED
    BY <1>1, <1>2, <1>3, <1>4, EditKeeps, StartJobKeeps, JobEndsKeeps, HangKeeps, CallKeeps DEF TableNext, Works

\* Where there is nothing but the table.
LEMMA TableUnchanged ==
    ASSUME TableInd, UNCHANGED tableVars
    PROVE  TableInd'
  BY JobAndCallKept DEF TableInd, tableVars, TableTypeOK, HolderFits, LinkFits

\* The agents of the table, and nobody connected.
LEMMA TableBegins ==
    ASSUME NEW m \in Machines, TableInit(m)
    PROVE  TableInd
  <1>1. m \in Machine /\ Valid(m.table)
    BY HostAssumption DEF HostAssumption
  <1>2. m.table \in SUBSET Row /\ m.conf \in [Guest -> Conf]
    BY <1>1 DEF Machine
  <1>3. PICK t \in BOOLEAN, f \in BOOLEAN : t /\ ~f
    BY Zenon
  <1>4. /\ table = m.table /\ conf = m.conf /\ holder = [p \in Port |-> "nobody"] /\ link = [p \in Port |-> NoLink]
        /\ hello = [l \in Label |-> "none"]
        /\ agents = [l \in Label |->
                        IF \E r \in m.table : LabelOf(r) = l
                        THEN AgentOf(CHOOSE r \in m.table : LabelOf(r) = l) ELSE NoAgentFile]
        /\ job = [pc |-> "idle", all |-> t, rows |-> {}, drop |-> {}, good |-> t, fixed |-> t]
        /\ call = [pc |-> "idle", asked |-> "", port |-> 1, sure |-> f, said |-> ""]
    BY <1>3 DEF TableInit, NoCall
  <1>5. /\ job \in JobState /\ job.pc = "idle" /\ job.rows = {} /\ job.drop = {}
        /\ call \in CallState /\ ~call.sure
    BY <1>3, <1>4 DEF JobState, CallState, Port
  <1>6. ASSUME NEW r \in table
        PROVE  agents[LabelOf(r)] = AgentOf(r)
    <2> DEFINE s == CHOOSE s \in table : LabelOf(s) = LabelOf(r)
    <2>1. LabelOf(r) \in Label
      BY <1>2, <1>4, LabelIs
    <2>2. s \in table /\ LabelOf(s) = LabelOf(r)
      OBVIOUS
    <2> HIDE DEF s
    <2>3. s = r
      BY <1>1, <1>2, <1>4, <2>2, LabelIs
    <2>4. agents[LabelOf(r)] = AgentOf(s)
      BY <1>4, <2>1, <2>2 DEF s
    <2> QED
      BY <2>3, <2>4
  <1>7. ASSUME NEW l \in Label, ~\E r \in table : LabelOf(r) = l
        PROVE  agents[l] = NoAgentFile
    BY <1>4, <1>7
  <1>8. ASSUME NEW r \in table
        PROVE  agents[LabelOf(r)].name = r.name /\ agents[LabelOf(r)].port = r.port
    <2>1. r \in Row
      BY <1>2, <1>4
    <2> QED
      BY <1>6, <2>1, LabelIs
  <1>9. NoAgentFile.state = "none" /\ NoAgentFile \in [state : {"none", "file", "loaded"}, name : Name \union {""}, port : Port]
    BY DEF NoAgentFile, Port
  <1>10. AgentsFit
    <2>1. ASSUME NEW l \in Label, agents[l].state # "none"
          PROVE  \E r \in table : LabelOf(r) = l /\ agents[l].name = r.name /\ agents[l].port = r.port
      <3>1. PICK r \in table : LabelOf(r) = l
        BY <1>7, <1>9, <2>1
      <3> QED
        BY <1>8, <3>1
    <2> QED
      BY <2>1 DEF AgentsFit
  <1>11. agents \in [Label -> [state : {"none", "file", "loaded"}, name : Name \union {""}, port : Port]]
    <2>1. ASSUME NEW l \in Label
          PROVE  agents[l] \in [state : {"none", "file", "loaded"}, name : Name \union {""}, port : Port]
      <3>1. CASE \E r \in table : LabelOf(r) = l
        <4>1. PICK r \in table : LabelOf(r) = l
          BY <3>1
        <4>2. r \in Row
          BY <1>2, <1>4
        <4> QED
          BY <1>6, <4>1, <4>2, LabelIs
      <3>2. CASE ~\E r \in table : LabelOf(r) = l
        BY <1>7, <1>9, <3>2
      <3> QED
        BY <3>1, <3>2
    <2> QED
      BY <1>4, <2>1
  <1>12. TableTypeOK
    BY <1>2, <1>4, <1>5, <1>11 DEF TableTypeOK, NoLink
  <1>13. JobFits
    BY <1>1, <1>4, <1>5, <1>6, <1>10 DEF JobFits, RowsFit
  <1>14. HolderFits /\ LinkFits /\ CallFits
    BY <1>4, <1>5 DEF HolderFits, LinkFits, CallFits
  <1> QED
    BY <1>12, <1>13, <1>14 DEF TableInd

-----------------------------------------------------------------------------
(* The types, and the calls *)

\* The types, which the table needs its own facts for.
TypesInd == HostTypeOK /\ TableInd

\* The machines to begin with.
LEMMA HostBegins ==
    HostInit => TypesInd
  <1> SUFFICES ASSUME HostInit
               PROVE  TypesInd
    OBVIOUS
  <1>1. PICK m \in Machines : MachineInit(m) /\ TableInit(m)
    BY DEF HostInit
  <1>2. m \in Machine
    BY HostAssumption DEF HostAssumption
  <1>3. TableInd
    BY <1>1, TableBegins
  <1>4. Blank \in DiskState
    BY DEF Blank, DiskState, Address
  <1>5. MachineTypeOK /\ supply \in Supply
    <2>1. m.work \in DiskState
      BY <1>2 DEF Machine
    <2>2. disk \in [Image -> DiskState]
      BY <1>1, <1>4, <2>1 DEF MachineInit, Image
    <2> QED
      BY <1>1, <1>2, <2>2 DEF MachineInit, MachineTypeOK, Machine
  <1>6. InstallTypeOK
    BY <1>5, FreshIs DEF HostInit, InstallInit, InstallTypeOK
  <1>7. DoctorTypeOK
    <2>1. PICK f \in BOOLEAN : ~f
      BY Zenon
    <2>2. doctor = [pc |-> "idle", look |-> Blind, report |-> {}, done |-> f, quiet |-> f]
      BY <2>1 DEF HostInit, DoctorInit
    <2>3. Blind \in Look
      <3>1. Blind = [procs |-> {}, helper |-> f, choice |-> "basilisk", agent |-> "absent", serving |-> f,
                     ether |-> "none", intended |-> "none", env |-> [present |-> f, addr |-> "none", app |-> "none"],
                     deployed |-> f, guests |-> {}, ip |-> "none"]
        BY <2>1 DEF Blind
      <3>2. [present |-> f, addr |-> "none", app |-> "none"] \in EnvState
        BY DEF EnvState, Address
      <3> QED
        BY <3>1, <3>2 DEF Look, Emulator, Address
    <2> QED
      BY <2>2, <2>3 DEF DoctorTypeOK, DoctorState
  <1> QED
    BY <1>3, <1>5, <1>6, <1>7 DEF TypesInd, HostTypeOK, TableInd

\* What a step of the installer leaves, and what it does to the types.
LEMMA InstallStepTypes ==
    ASSUME TypesInd, InstallStep
    PROVE  TypesInd'
  <1>1. MachineTypeOK' /\ InstallTypeOK'
    BY InstallNextTypes DEF TypesInd, InstallStep
  <1>2. DoctorTypeOK'
    BY UnquietIs DEF TypesInd, InstallStep
  <1>3. TableInd'
    BY TableUnchanged DEF TypesInd, InstallStep
  <1> QED
    BY <1>1, <1>2, <1>3 DEF TypesInd, HostTypeOK, TableInd

\* An emulator is started or stopped.
LEMMA EmulatorStepTypes ==
    ASSUME TypesInd, EmulatorStep
    PROVE  TypesInd'
  <1>1. MachineTypeOK' /\ supply' \in Supply
    <2>1. PICK e \in Emulator : (\E byStack, work \in BOOLEAN : Launch(e, byStack, work)) \/ Quit(e) \/ HelperDies(e)
      BY DEF EmulatorStep, EmulatorNext
    <2> QED
      BY <2>1, LaunchIs, StopsIs DEF TypesInd
  <1>2. InstallTypeOK'
    BY <1>1, DisturbedIs DEF TypesInd, EmulatorStep, HostTypeOK, InstallTypeOK
  <1>3. DoctorTypeOK'
    BY UnquietIs DEF TypesInd, EmulatorStep
  <1>4. TableInd'
    BY TableUnchanged DEF TypesInd, EmulatorStep
  <1> QED
    BY <1>1, <1>2, <1>3, <1>4 DEF TypesInd, HostTypeOK, TableInd

\* The doctor looks, or its advice is followed.
LEMMA DoctorStepTypes ==
    ASSUME TypesInd, DoctorStep \/ FollowStep
    PROVE  TypesInd'
  <1>1. MachineTypeOK' /\ supply' \in Supply /\ DoctorTypeOK'
    BY DoctorNextIs, FollowIs DEF TypesInd, DoctorStep, FollowStep
  <1>2. InstallTypeOK'
    BY <1>1, DisturbedIs DEF TypesInd, DoctorStep, FollowStep, HostTypeOK, InstallTypeOK, installVars
  <1>3. TableInd'
    BY TableUnchanged DEF TypesInd, DoctorStep, FollowStep
  <1> QED
    BY <1>1, <1>2, <1>3 DEF TypesInd, HostTypeOK, TableInd

\* Something happens to the table.
LEMMA TableStepTypes ==
    ASSUME TypesInd, OnTable(TableNext)
    PROVE  TypesInd'
  <1>1. TableInd' /\ supply' \in Supply
    BY TableNextKeeps DEF TypesInd, OnTable, HostTypeOK, InstallTypeOK
  <1>2. MachineTypeOK' /\ InstallTypeOK'
    BY <1>1 DEF TypesInd, OnTable, HostTypeOK, InstallTypeOK, MachineTypeOK, hostVars, installVars
  <1>3. DoctorTypeOK'
    BY UnquietIs DEF TypesInd, OnTable
  <1> QED
    BY <1>1, <1>2, <1>3 DEF TypesInd, HostTypeOK, TableInd

\* Every step keeps the types, and what is known of the table.
LEMMA TypesKept ==
    ASSUME TypesInd, [HostNext]_hostToolVars
    PROVE  TypesInd'
  <1>1. CASE HostNext
    BY <1>1, InstallStepTypes, EmulatorStepTypes, DoctorStepTypes, TableStepTypes DEF HostNext
  <1>2. CASE UNCHANGED hostToolVars
    <2>1. TableInd'
      BY <1>2, TableUnchanged DEF TypesInd, hostToolVars
    <2>2. MachineTypeOK' /\ InstallTypeOK' /\ DoctorTypeOK'
      BY <1>2 DEF TypesInd, HostTypeOK, MachineTypeOK, InstallTypeOK, DoctorTypeOK, hostToolVars, machineVars,
                  hostVars, installVars
    <2> QED
      BY <2>1, <2>2 DEF TypesInd, HostTypeOK, TableInd
  <1> QED
    BY <1>1, <1>2

\* The types of one host with its installer, its doctor, its emulators and its table.
THEOREM HostTypesHold == HostSpec => []HostTypeOK
  <1>1. HostInit => TypesInd
    BY HostBegins
  <1>2. TypesInd /\ [HostNext]_hostToolVars => TypesInd'
    BY TypesKept
  <1>3. TypesInd => HostTypeOK
    BY DEF TypesInd
  <1> QED
    BY <1>1, <1>2, <1>3, PTL DEF HostSpec

\* A tool call for a guest is executed on the guest that has told this name, or one that tells
\* none: for every table that parse accepts, every edit, job, kill, and guest that dials.
THEOREM CallsHold == HostSpec => []CallsMeetTheirGuest
  <1>1. HostInit => TypesInd
    BY HostBegins
  <1>2. TypesInd /\ [HostNext]_hostToolVars => TypesInd'
    BY TypesKept
  <1>3. TypesInd => CallsMeetTheirGuest
    BY DEF TypesInd, TableInd, CallFits, CallsMeetTheirGuest
  <1> QED
    BY <1>1, <1>2, <1>3, PTL DEF HostSpec

-----------------------------------------------------------------------------
(* The doctor sees what there is *)

\* Of a set of numbers one is the least.
LEMMA LeastIs ==
    ASSUME NEW T \in SUBSET Nat, T # {}
    PROVE  \E n \in T : \A m \in T : n <= m
  <1>1. PICK n \in T : \A m \in T : ~(<<m, n>> \in OpToRel(<, Nat))
    BY NatLessThanWellFounded, WFMin
  <1>2. ASSUME NEW m \in T
        PROVE  n <= m
    <2>1. m < n => <<m, n>> \in OpToRel(<, Nat)
      BY Zenon DEF OpToRel
    <2>2. ~(m < n)
      BY <1>1, <2>1, Zenon
    <2> QED
      BY <2>2
  <1> QED
    BY <1>2

\* A report that is not empty has a first finding, which is a reason.
LEMMA ReasonIs ==
    ASSUME HostTypeOK, doctor.report # {}
    PROVE  ShortReason # {}
  <1>1. doctor.report \subseteq Finding
    BY DEF HostTypeOK, DoctorTypeOK, DoctorState
  <1>2. PICK i \in 1..19 : Findings[i][1] \in doctor.report
    BY <1>1, FindingsAre DEF Finding
  <1> DEFINE level == Findings[i][2]
             T == {j \in 1..19 : Findings[j][2] = level /\ Findings[j][1] \in doctor.report}
  <1>3. level \in {"error", "warn"} /\ T \subseteq Nat /\ T # {}
    BY <1>2, FindingsAre
  <1>4. PICK j \in T : \A k \in T : j <= k
    BY <1>3, LeastIs
  <1>5. /\ j \in 1..19 /\ Findings[j][2] = level /\ Findings[j][1] \in doctor.report
        /\ \A k \in 1..(j - 1) : Findings[k][2] = level => Findings[k][1] \notin doctor.report
    <2>1. j \in 1..19 /\ Findings[j][2] = level /\ Findings[j][1] \in doctor.report
      BY <1>4
    <2>2. ASSUME NEW k \in 1..(j - 1), Findings[k][2] = level, Findings[k][1] \in doctor.report
          PROVE  FALSE
      <3>1. k \in T /\ k < j
        BY <2>1, <2>2
      <3> QED
        BY <1>4, <2>1, <3>1
    <2> QED
      BY <2>1, <2>2
  <1> HIDE DEF level, T
  <1>6. Findings[j][1] \in FirstOf(level)
    BY <1>5, FindingsAre DEF FirstOf
  <1> QED
    BY <1>3, <1>6 DEF ShortReason

\* What each finding is about.
LEMMA InterpretIs ==
    ASSUME NEW l
    PROVE  /\ "launchd_disabled" \in Interpret(l) <=> l.agent = "disabled"
           /\ "host_server_not_running" \in Interpret(l) <=> l.agent \in {"absent", "hand"} /\ ~l.serving
           /\ "launchd_absent" \in Interpret(l) <=> l.agent = "installed"
           /\ "control_port_closed" \in Interpret(l) <=> l.agent = "loaded" /\ ~l.serving
           /\ "host_ip_missing" \in Interpret(l) <=> l.env.addr \in {"gone", "router"}
           /\ "host_ip_duplicate" \in Interpret(l) <=> l.env.addr = "dup"
           /\ "host_ip_wrong_interface" \in Interpret(l) <=> l.env.addr = "other"
           /\ "ether_slirp" \in Interpret(l) <=> l.ether = "slirp" /\ l.intended # "slirp"
           /\ "ether_drift" \in Interpret(l) <=> l.ether # "none" /\ l.intended # "none" /\ l.ether # l.intended
           /\ "etherhelper_dead" \in Interpret(l) <=> l.ether = "bridge" /\ l.procs # {} /\ ~l.helper
           /\ "local_env_has_host_ip" \in Interpret(l) <=> AddressOnSlirp(l)
           /\ "emulator_app_stale" \in Interpret(l) <=> l.env.app = "moved"
           /\ "deploy_missing" \in Interpret(l) <=> l.agent \in {"installed", "loaded", "disabled"} /\ ~l.deployed
           /\ "guest_ip_stale" \in Interpret(l) <=> GuestIpStale(l)
           /\ \A key \in RowFinding : key \in Interpret(l) <=> key \in l.guests
           /\ Interpret(l) \subseteq Finding
  <1> USE FindingsAre DEF RowFinding
  <1>1. /\ "launchd_disabled" \in Interpret(l) <=> l.agent = "disabled"
        /\ "host_server_not_running" \in Interpret(l) <=> l.agent \in {"absent", "hand"} /\ ~l.serving
        /\ "launchd_absent" \in Interpret(l) <=> l.agent = "installed"
        /\ "control_port_closed" \in Interpret(l) <=> l.agent = "loaded" /\ ~l.serving
    BY DEF Interpret, Server
  <1>2. /\ "host_ip_missing" \in Interpret(l) <=> l.env.addr \in {"gone", "router"}
        /\ "host_ip_duplicate" \in Interpret(l) <=> l.env.addr = "dup"
        /\ "host_ip_wrong_interface" \in Interpret(l) <=> l.env.addr = "other"
    BY DEF Interpret, HostIp
  <1>3. /\ "ether_slirp" \in Interpret(l) <=> l.ether = "slirp" /\ l.intended # "slirp"
        /\ "ether_drift" \in Interpret(l) <=> l.ether # "none" /\ l.intended # "none" /\ l.ether # l.intended
        /\ "etherhelper_dead" \in Interpret(l) <=> l.ether = "bridge" /\ l.procs # {} /\ ~l.helper
    BY DEF Interpret, Ether
  <1>4. /\ "local_env_has_host_ip" \in Interpret(l) <=> AddressOnSlirp(l)
        /\ "emulator_app_stale" \in Interpret(l) <=> l.env.app = "moved"
        /\ "deploy_missing" \in Interpret(l) <=> l.agent \in {"installed", "loaded", "disabled"} /\ ~l.deployed
    BY DEF Interpret, Installation
  <1>5. "guest_ip_stale" \in Interpret(l) <=> GuestIpStale(l)
    BY DEF Interpret
  <1>6. \A key \in RowFinding : key \in Interpret(l) <=> key \in l.guests
    BY DEF Interpret
  <1>7. Interpret(l) \subseteq Finding
    BY DEF Interpret
  <1> QED
    BY <1>1, <1>2, <1>3, <1>4, <1>5, <1>6, <1>7

\* What there is to be seen is something that can be seen.
LEMMA NowIs ==
    ASSUME HostTypeOK
    PROVE  Now \in Look
  <1>1. /\ up \in [Emulator -> Running] /\ newest \in Emulator /\ agent \in AgentState /\ env \in EnvState
        /\ prefs \in [Emulator -> Prefs] /\ netmode \in [Emulator -> Backend \union {"none"}]
        /\ disk \in [Image -> DiskState]
    BY DEF HostTypeOK, MachineTypeOK
  <1>2. UpNow \subseteq Emulator /\ Resolved(UpNow, "none") \in Emulator
    BY <1>1, ResolvedIs DEF UpNow
  <1>3. /\ LastEther(prefs[Resolved(UpNow, "none")]) \in Backend \union {"none"}
        /\ netmode[Resolved(UpNow, "none")] \in Backend \union {"none"}
    BY <1>1, <1>2, EtherIs
  <1>4. GuestFindings \subseteq Finding
    BY GuestFindingsAre, FindingsAre
  <1>5. GuestIp \in Address
    BY <1>1 DEF GuestIp, Address, DiskState, Image
  <1>6. Serving \in BOOLEAN /\ agent.deployed \in BOOLEAN
        /\ agent.state \in {"absent", "hand", "installed", "loaded", "disabled"}
    BY <1>1 DEF Serving, AgentState
  <1>7. PICK h \in BOOLEAN : h = (\E e \in Emulator : up[e].helper)
    BY Zenon
  <1>8. PICK s \in BOOLEAN : s = Serving
    BY <1>6
  <1>9. Now = [procs |-> UpNow, helper |-> h, choice |-> Resolved(UpNow, "none"),
               agent |-> agent.state, serving |-> s,
               ether |-> LastEther(prefs[Resolved(UpNow, "none")]), intended |-> netmode[Resolved(UpNow, "none")],
               env |-> env, deployed |-> agent.deployed, guests |-> GuestFindings, ip |-> GuestIp]
    BY <1>7, <1>8 DEF Now
  <1> QED
    BY <1>1, <1>2, <1>3, <1>4, <1>5, <1>6, <1>9 DEF Look

\* Two looks at the same things are the same.
LEMMA SameLook ==
    ASSUME NEW l \in Look, NEW m \in Look,
           l.procs = m.procs, l.helper = m.helper, l.choice = m.choice, l.agent = m.agent, l.serving = m.serving,
           l.ether = m.ether, l.intended = m.intended, l.env = m.env, l.deployed = m.deployed,
           l.guests = m.guests, l.ip = m.ip
    PROVE  l = m
  BY DEF Look

\* The doctor's own steps and a mounted volume are nothing that it sees.
LEMMA NowKept ==
    ASSUME UNCHANGED <<prefs, netmode, newest, up, bundle, env, agent, disk>>, UNCHANGED tableVars
    PROVE  Now' = Now /\ UpNow' = UpNow
  <1>1. UpNow' = UpNow /\ Serving' = Serving
    BY DEF UpNow, Serving
  <1>2. Resolved(UpNow, "none")' = Resolved(UpNow, "none")
    BY <1>1 DEF Resolved, Present
  <1>3. GuestFindings' = GuestFindings
    BY DEF tableVars, GuestFindings, RowFindings, Valid
  <1>4. GuestIp' = GuestIp
    BY <1>1 DEF GuestIp
  <1> QED
    BY <1>1, <1>2, <1>3, <1>4 DEF Now

\* What the doctor has seen is still so, as long as nothing else has changed anything.
LEMMA DoctorStepSees ==
    ASSUME TypesInd, DoctorSees, DoctorStep
    PROVE  DoctorSees'
  <1>1. /\ HostTypeOK /\ doctor \in DoctorState /\ doctor.look \in Look /\ Now \in Look
    BY NowIs DEF TypesInd, HostTypeOK, DoctorTypeOK, DoctorState
  <1>2. Now' = Now /\ UpNow' = UpNow
    BY <1>1, DoctorNextIs, NowKept DEF DoctorStep
  <1>3. /\ Now.procs = UpNow /\ Now.choice = Resolved(UpNow, "none") /\ Now.agent = agent.state
        /\ Now.serving = Serving /\ Now.ether = LastEther(prefs[Resolved(UpNow, "none")])
        /\ Now.intended = netmode[Resolved(UpNow, "none")] /\ Now.env = env /\ Now.deployed = agent.deployed
        /\ Now.guests = GuestFindings /\ Now.ip = GuestIp /\ Now.helper = \E e \in Emulator : up[e].helper
    BY DEF Now
  <1>4. CASE LookAtProcesses
    <2> DEFINE m == [Blind EXCEPT !.procs = UpNow, !.helper = \E e \in Emulator : up[e].helper,
                                  !.choice = Resolved(UpNow, "none")]
    <2>1. PICK f \in BOOLEAN : ~f
      BY Zenon
    <2>2. m.procs = Now.procs /\ m.helper = Now.helper /\ m.choice = Now.choice /\ m.ip = "none"
      BY <1>3 DEF Blind
    <2>3. doctor'.pc = "services" /\ doctor'.look = m /\ doctor'.done = f
      <3>1. doctor' = [pc |-> "services", report |-> {}, done |-> f, quiet |-> ~f, look |-> m]
        BY <1>4, <2>1, Zenon DEF LookAtProcesses
      <3> QED
        BY <3>1
    <2> HIDE DEF m
    <2> QED
      BY <1>2, <2>1, <2>2, <2>3 DEF DoctorSees
  <1>5. CASE LookAtServices
    <2> DEFINE m == [doctor.look EXCEPT !.agent = agent.state, !.serving = Serving]
    <2>1. /\ m.procs = doctor.look.procs /\ m.helper = doctor.look.helper /\ m.choice = doctor.look.choice
          /\ m.ip = doctor.look.ip /\ m.agent = agent.state /\ m.serving = Serving
      BY <1>1 DEF Look
    <2>2. doctor' = [doctor EXCEPT !.pc = "files", !.look = m] /\ doctor.pc = "services"
      BY <1>1, <1>5 DEF LookAtServices, DoctorState
    <2> HIDE DEF m
    <2>3. doctor'.pc = "files" /\ doctor'.look = m /\ doctor'.quiet = doctor.quiet /\ doctor'.done = doctor.done
      BY <1>1, <2>2 DEF DoctorState
    <2>4. doctor.quiet => /\ ~doctor.done
                          /\ m.procs = Now.procs /\ m.helper = Now.helper /\ m.choice = Now.choice /\ m.ip = "none"
      BY <2>1, <2>2 DEF DoctorSees
    <2>5. m.agent = Now.agent /\ m.serving = Now.serving
      BY <1>3, <2>1
    <2>6. doctor'.quiet => /\ doctor'.look.procs = Now'.procs /\ doctor'.look.helper = Now'.helper
                           /\ doctor'.look.choice = Now'.choice /\ doctor'.look.ip = "none" /\ ~doctor'.done
      BY <1>2, <2>3, <2>4
    <2>7. doctor'.look.agent = Now'.agent /\ doctor'.look.serving = Now'.serving
      BY <1>2, <2>3, <2>5
    <2> QED
      BY <2>3, <2>6, <2>7 DEF DoctorSees
  <1>6. CASE LookAtFiles
    <2> DEFINE m == [doctor.look EXCEPT !.ether = LastEther(prefs[doctor.look.choice]),
                                        !.intended = netmode[doctor.look.choice], !.env = env,
                                        !.deployed = agent.deployed, !.guests = GuestFindings]
    <2>1. /\ m.procs = doctor.look.procs /\ m.helper = doctor.look.helper /\ m.choice = doctor.look.choice
          /\ m.ip = doctor.look.ip /\ m.agent = doctor.look.agent /\ m.serving = doctor.look.serving
          /\ m.ether = LastEther(prefs[doctor.look.choice]) /\ m.intended = netmode[doctor.look.choice]
          /\ m.env = env /\ m.deployed = agent.deployed /\ m.guests = GuestFindings
      BY <1>1 DEF Look
    <2>2. doctor' = [doctor EXCEPT !.pc = "image", !.look = m] /\ doctor.pc = "files"
      BY <1>1, <1>6 DEF LookAtFiles, DoctorState
    <2> HIDE DEF m
    <2>3. doctor'.pc = "image" /\ doctor'.look = m /\ doctor'.quiet = doctor.quiet /\ doctor'.done = doctor.done
      BY <1>1, <2>2 DEF DoctorState
    <2>4. doctor.quiet => /\ ~doctor.done /\ doctor.look.choice = Now.choice
                          /\ m.procs = Now.procs /\ m.helper = Now.helper /\ m.choice = Now.choice /\ m.ip = "none"
                          /\ m.agent = Now.agent /\ m.serving = Now.serving
      BY <2>1, <2>2 DEF DoctorSees
    <2>5. doctor.quiet => /\ m.ether = Now.ether /\ m.intended = Now.intended /\ m.env = Now.env
                          /\ m.deployed = Now.deployed /\ m.guests = Now.guests
      BY <1>3, <2>1, <2>4
    <2>6. doctor'.quiet => /\ doctor'.look.procs = Now'.procs /\ doctor'.look.helper = Now'.helper
                           /\ doctor'.look.choice = Now'.choice /\ doctor'.look.ip = "none" /\ ~doctor'.done
                           /\ doctor'.look.agent = Now'.agent /\ doctor'.look.serving = Now'.serving
      BY <1>2, <2>3, <2>4
    <2>7. doctor'.quiet => /\ doctor'.look.ether = Now'.ether /\ doctor'.look.intended = Now'.intended
                           /\ doctor'.look.env = Now'.env /\ doctor'.look.deployed = Now'.deployed
                           /\ doctor'.look.guests = Now'.guests
      BY <1>2, <2>3, <2>5
    <2> QED
      BY <2>3, <2>6, <2>7 DEF DoctorSees
  <1>7. ASSUME NEW l \in Look, Reports(l)
        PROVE  doctor'.pc = "idle" /\ doctor'.quiet = doctor.quiet /\ doctor'.report = Interpret(l)
    <2>1. PICK t \in BOOLEAN : t
      BY Zenon
    <2>2. doctor' = [doctor EXCEPT !.pc = "idle", !.look = Blind, !.report = Interpret(l), !.done = t]
      BY <1>7, <2>1 DEF Reports
    <2> QED
      BY <1>1, <2>2 DEF DoctorState
  <1>8. CASE LookAtImage
    <2>1. doctor.pc = "image"
      BY <1>8 DEF LookAtImage
    <2>2. CASE doctor.look.procs # {}
      <3>1. Reports(doctor.look)
        BY <1>8, <2>2 DEF LookAtImage
      <3>2. doctor.quiet => doctor.look = Now
        <4> SUFFICES ASSUME doctor.quiet
                     PROVE  doctor.look = Now
          OBVIOUS
        <4>1. Now.ip = "none"
          BY <1>3, <2>1, <2>2 DEF DoctorSees, GuestIp
        <4> QED
          BY <1>1, <2>1, <4>1, SameLook DEF DoctorSees
      <3> QED
        BY <1>1, <1>2, <1>7, <3>1, <3>2 DEF DoctorSees
    <2>3. CASE doctor.look.procs = {}
      <3>1. doctor' = [doctor EXCEPT !.pc = "mounted"] /\ vol' = "work"
        BY <1>8, <2>3 DEF LookAtImage
      <3>2. /\ doctor'.pc = "mounted" /\ doctor'.look = doctor.look /\ doctor'.quiet = doctor.quiet
            /\ doctor'.done = doctor.done
        BY <1>1, <3>1 DEF DoctorState
      <3> QED
        BY <1>2, <1>3, <2>1, <2>3, <3>1, <3>2 DEF DoctorSees
    <2> QED
      BY <2>2, <2>3
  <1>9. CASE ReadPrefs
    <2> DEFINE i == IF vol # "none" /\ PrefsFile \in disk[vol].files THEN disk[vol].ip ELSE "none"
               m == [doctor.look EXCEPT !.ip = i]
    <2>1. doctor.pc = "mounted" /\ Reports(m)
      BY <1>9 DEF ReadPrefs
    <2>2. i \in Address
      BY <1>1 DEF HostTypeOK, MachineTypeOK, Address, DiskState
    <2>3. m \in Look /\ m.ip = i
          /\ m.procs = doctor.look.procs /\ m.helper = doctor.look.helper /\ m.choice = doctor.look.choice
          /\ m.agent = doctor.look.agent /\ m.serving = doctor.look.serving
          /\ m.ether = doctor.look.ether /\ m.intended = doctor.look.intended
          /\ m.env = doctor.look.env /\ m.deployed = doctor.look.deployed /\ m.guests = doctor.look.guests
      <3> HIDE DEF i
      <3> QED
        BY <1>1, <2>2 DEF Look
    <2>4. doctor.quiet => i = GuestIp
      BY <2>1 DEF DoctorSees, GuestIp
    <2> HIDE DEF i, m
    <2>5. doctor.quiet => m = Now
      <3> SUFFICES ASSUME doctor.quiet
                   PROVE  m = Now
        OBVIOUS
      <3>1. m.ip = Now.ip
        BY <1>3, <2>3, <2>4
      <3>2. /\ m.procs = Now.procs /\ m.helper = Now.helper /\ m.choice = Now.choice
            /\ m.agent = Now.agent /\ m.serving = Now.serving /\ m.ether = Now.ether /\ m.intended = Now.intended
            /\ m.env = Now.env /\ m.deployed = Now.deployed /\ m.guests = Now.guests
        BY <2>1, <2>3 DEF DoctorSees
      <3> QED
        BY <1>1, <2>3, <3>1, <3>2, SameLook
    <2> QED
      BY <1>2, <1>7, <2>1, <2>3, <2>5 DEF DoctorSees
  <1> QED
    BY <1>4, <1>5, <1>6, <1>8, <1>9 DEF DoctorStep, DoctorNext

\* Every step of the host leaves it so.
LEMMA DoctorSeesKept ==
    ASSUME TypesInd, DoctorSees, [HostNext]_hostToolVars
    PROVE  DoctorSees'
  <1>1. CASE Unquiet
    BY <1>1, UnquietIs DEF TypesInd, DoctorSees
  <1>2. CASE FollowStep
    <2>1. doctor'.pc = "idle" /\ doctor'.done = FALSE
      BY <1>2, FollowIs DEF TypesInd, FollowStep
    <2> QED
      BY <2>1 DEF DoctorSees
  <1>3. CASE UNCHANGED hostToolVars
    <2>1. Now' = Now /\ UpNow' = UpNow
      BY <1>3, NowKept DEF hostToolVars, machineVars, hostVars
    <2> QED
      BY <1>3, <2>1 DEF DoctorSees, hostToolVars, machineVars, hostVars
  <1> QED
    BY <1>1, <1>2, <1>3, DoctorStepSees DEF HostNext, InstallStep, EmulatorStep, OnTable

\* Before its first look the doctor has seen nothing.
LEMMA DoctorBegins == HostInit => DoctorSees
  <1>1. HostInit => ~doctor.quiet
    BY DEF HostInit, DoctorInit
  <1> QED
    BY <1>1 DEF DoctorSees

\* What keeps a guest away is reported, unless it is masked.
LEMMA BrokenIsReported ==
    ASSUME TypesInd, Broken
    PROVE  Interpret(Now) # {}
  <1>1. /\ up \in [Emulator -> Running] /\ newest \in Emulator /\ agent \in AgentState
    BY DEF TypesInd, HostTypeOK, MachineTypeOK
  <1>2. /\ Now.procs = UpNow /\ Now.choice = Resolved(UpNow, "none") /\ Now.agent = agent.state
        /\ Now.serving = Serving /\ Now.ether = LastEther(prefs[Resolved(UpNow, "none")])
        /\ Now.env = env /\ Now.ip = GuestIp
    BY DEF Now
  <1>3. CASE ~Serving
    <2>1. agent.state \in {"absent", "hand", "installed", "loaded", "disabled"}
      BY <1>1 DEF AgentState
    <2> QED
      BY <1>2, <1>3, <2>1, InterpretIs
  <1>4. CASE env.addr \in {"gone", "dup", "other"}
    BY <1>2, <1>4, InterpretIs
  <1>5. CASE HelperFault /\ ~Masked
    <2>1. UpNow # {} /\ LastEther(prefs[Resolved(UpNow, "none")]) = "bridge"
      BY <1>5 DEF HelperFault, Masked
    <2>2. ~Off.helper
      BY DEF Off
    <2>3. \A x \in Emulator : ~up[x].helper
      BY <1>5, <2>2 DEF Masked, UpNow
    <2>4. ~Now.helper
      BY <2>3 DEF Now
    <2> QED
      BY <1>2, <2>1, <2>4, InterpretIs
  <1>6. CASE UpNow = {} /\ PrefsFile \in disk["work"].files /\ disk["work"].ip = "gone"
    <2>1. Now.ip = "gone"
      BY <1>2, <1>6 DEF GuestIp
    <2> QED
      BY <2>1, InterpretIs DEF GuestIpStale
  <1> QED
    BY <1>3, <1>4, <1>5, <1>6 DEF Broken

\* No server, an address of another place, a dead bridge that is not masked, or a guest that is off
\* and will dial an address nobody has: none of these is hidden by another, for every machine, and
\* whatever the installer, the emulators and the person did before the doctor looked.
THEOREM NoFaultHolds == HostSpec => []NoFaultIsHidden
  <1>1. HostInit => TypesInd /\ DoctorSees
    BY HostBegins, DoctorBegins
  <1>2. TypesInd /\ DoctorSees /\ [HostNext]_hostToolVars => TypesInd' /\ DoctorSees'
    BY TypesKept, DoctorSeesKept
  <1>3. TypesInd /\ DoctorSees => NoFaultIsHidden
    <2> SUFFICES ASSUME TypesInd, DoctorSees, doctor.done, doctor.quiet, Broken
                 PROVE  ShortReason # {}
      BY DEF NoFaultIsHidden
    <2>1. doctor.report = Interpret(Now)
      BY DEF DoctorSees
    <2> QED
      BY <2>1, BrokenIsReported, ReasonIs DEF TypesInd
  <1> QED
    BY <1>1, <1>2, <1>3, PTL DEF HostSpec

\* Rows that are served by their guests have nothing to be found.
LEMMA ServedIsHealthy ==
    ASSUME TypesInd, job.fixed, Served
    PROVE  GuestFindings = {}
  <1>1. /\ TableInd /\ holder \in [Port -> Label \union {"nobody"}] /\ table \in SUBSET Row
        /\ hello \in [Label -> {"none", "ok", "nameless", "refused"}]
    BY DEF TypesInd, TableInd, TableTypeOK
  <1>2. Valid(table) /\ AgentsFit /\ RowsFit(table)
    BY <1>1 DEF TableInd, JobFits
  <1>3. ASSUME NEW r \in table
        PROVE  RowFindings(r) = {}
    <2> DEFINE l == LabelOf(r)
               h == holder[r.port]
    <2>1. r \in Row /\ r.port \in Port /\ r.name \in Name /\ l \in Label /\ agents[l].state = "loaded"
      <3>1. r \in Row
        BY <1>1
      <3>2. agents[LabelOf(r)] = AgentOf(r)
        BY <1>2 DEF RowsFit
      <3> QED
        BY <3>1, <3>2, LabelIs DEF Row
    <2>2. link[r.port] # NoLink /\ link[r.port].said = r.name /\ r.name # ""
      BY <2>1 DEF Served, Name
    <2>3. h # "nobody" /\ agents[h].name = r.name
      BY <1>1, <2>1, <2>2 DEF TableInd, LinkFits
    <2>4. hello[h] = "ok"
      BY <1>1, <2>1, <2>2 DEF TableInd, LinkFits
    <2>5. h \in Label /\ agents[h].state = "loaded" /\ agents[h].port = r.port
      BY <1>1, <2>1, <2>3 DEF TableInd, HolderFits
    <2>6. PICK s \in table : LabelOf(s) = h /\ agents[h].name = s.name
      BY <1>2, <2>5 DEF AgentsFit
    <2>7. s = r
      BY <1>2, <2>3, <2>6 DEF Valid
    <2>8. h = l
      BY <2>6, <2>7
    <2> HIDE DEF l, h
    <2>9. hello[l] = "ok" /\ holder[r.port] # "nobody"
      BY <2>3, <2>4, <2>8 DEF h
    <2> QED
      BY <2>1, <2>9 DEF RowFindings, l
  <1> QED
    BY <1>2, <1>3 DEF GuestFindings

\* A look at rows that are all served finds nothing wrong with them.
LEMMA RowsHealthy ==
    ASSUME TypesInd, DoctorSees
    PROVE  ServedRowsAreHealthy
  <1> SUFFICES ASSUME doctor.done, doctor.quiet, job.fixed, Served
               PROVE  doctor.report \cap RowFinding = {}
    BY DEF ServedRowsAreHealthy
  <1>1. doctor.report = Interpret(Now) /\ Now.guests = {}
    BY ServedIsHealthy DEF DoctorSees, Now
  <1> QED
    BY <1>1, InterpretIs

-----------------------------------------------------------------------------
(* The installer: the plan *)

\* A step after the plan: seeds and kits.
LateStep ==
    /\ ImagesOnly /\ RunKept /\ run.pc \in Late /\ run.pc # "exit" /\ run'.pc \in Late /\ run'.good = run.good
    /\ \E f \in BOOLEAN : PastRest(past.clean /\ ~f)

\* The steps after the plan change images only.
LEMMA LateStepIs ==
    ASSUME HostTypeOK,
           SeedUnanswered \/ SeedReads \/ Verify
           \/ \E fault \in BOOLEAN : \/ SeedBegins(fault) \/ SeedWrites(fault) \/ KitBegins(fault) \/ Pull(fault) \/ Format(fault) \/ Place(fault)
    PROVE  LateStep
  <1>1. past \in PastState
    BY DEF HostTypeOK, InstallTypeOK
  <1>2. CASE SeedReads \/ Verify
    <2>1. past' = past /\ \E f \in BOOLEAN : ~f
      BY <1>2, SeedReadsIs, VerifyIs, Zenon
    <2>2. PICK f \in BOOLEAN : ~f
      BY <2>1
    <2>3. past.clean = (past.clean /\ ~f)
      BY <1>1, <2>2 DEF PastState
    <2>4. PastRest(past.clean /\ ~f)
      BY <1>1, <2>1, <2>3 DEF PastRest
    <2> QED
      BY <1>2, <2>4, SeedReadsIs, VerifyIs DEF LateStep, Late
  <1>3. ASSUME NEW fault \in BOOLEAN, SeedBegins(fault) \/ KitBegins(fault)
        PROVE  LateStep
    BY <1>3, SeedBeginsIs, KitBeginsIs DEF LateStep, Late, PastKept
  <1>4. ASSUME NEW fault \in BOOLEAN, SeedWrites(fault) \/ Pull(fault) \/ Format(fault) \/ Place(fault)
        PROVE  LateStep
    BY <1>4, SeedWritesIs, PullIs, FormatIs, PlaceIs DEF LateStep, Late, PastKept
  <1>5. CASE SeedUnanswered
    BY <1>5, SeedUnansweredIs DEF LateStep, Late
  <1> QED
    BY <1>2, <1>3, <1>4, <1>5

\* They keep what the plan has done.
LEMMA LateStepKeeps ==
    ASSUME HostTypeOK, InstallInd, LateStep
    PROVE  InstallInd'
  <1>1. /\ UNCHANGED <<prefs, netmode, newest, up, bundle, env, agent>>
        /\ run'.args = run.args /\ run'.seen = run.seen /\ run'.choice = run.choice /\ run'.refused = run.refused
        /\ run'.good = run.good /\ run.pc \in Late /\ run.pc # "exit" /\ run'.pc \in Late
        /\ past'.prefs = past.prefs /\ past'.netmode = past.netmode /\ past'.alone = past.alone
        /\ past'.env = past.env /\ past'.agent = past.agent
        /\ past'.exit = past.exit /\ past'.settled = past.settled /\ (past'.clean => past.clean)
    BY DEF LateStep, ImagesOnly, RunKept, PastKept, PastRest
  <1>2. InOrder' /\ past.exit # 0 /\ ~past.settled
    BY <1>1 DEF InstallInd, InOrder, Early, Late, Unended
  <1>3. UntouchedYet'
    BY <1>1 DEF InstallInd, UntouchedYet, Late
  <1>4. BridgedHostIsKept'
    BY <1>1 DEF InstallInd, BridgedHostIsKept
  <1>5. Chosen'
    BY <1>1 DEF Chosen, Late
  <1>6. Converts'
    BY <1>1, <1>2 DEF InstallInd, Converts, Carried, Slirped, Serving, Late
  <1>7. Rerun'
    BY <1>1 DEF InstallInd, Rerun, OneLine
  <1>8. Settled'
    BY <1>1, <1>2 DEF Settled
  <1> QED
    BY <1>2, <1>3, <1>4, <1>5, <1>6, <1>7, <1>8 DEF InstallInd

\* A run that begins, and one that is killed, has done nothing yet.
LEMMA FreshKeeps ==
    ASSUME HostTypeOK, UNCHANGED hostVars, past' = Fresh, run'.pc \in {"idle", "decide"}, run'.good, ~run'.refused
    PROVE  InstallInd'
  <1>1. /\ past'.prefs = prefs' /\ past'.netmode = netmode' /\ past'.env = env' /\ past'.agent = agent'
        /\ past'.exit = Unended /\ ~past'.settled /\ past'.alone /\ past'.clean
    BY Zenon DEF Fresh, hostVars
  <1>2. InOrder'
    BY <1>1 DEF InOrder, Early
  <1>3. UntouchedYet' /\ BridgedHostIsKept'
    BY <1>1 DEF UntouchedYet, BridgedHostIsKept
  <1>4. Chosen' /\ Converts' /\ Rerun' /\ Settled'
    BY <1>1 DEF Chosen, Converts, Carried, Rerun, Settled, Late, Unended
  <1> QED
    BY <1>2, <1>3, <1>4 DEF InstallInd

\* The plan is made of what the probe has seen.
LEMMA DecideKeeps ==
    ASSUME HostTypeOK, InstallInd, Decide
    PROVE  InstallInd'
  <1> DEFINE c == run'.choice
  <1>1. /\ UNCHANGED <<past, machineVars>> /\ run.pc = "decide"
        /\ run'.args = run.args /\ run'.seen = run.seen /\ run'.good = run.good /\ c \in Emulator
        /\ run'.refused = Refuses(c)
        /\ run'.pc = IF run'.refused THEN "seed" ELSE IF SetsBackend(c) THEN "intent" ELSE "env"
    BY DecideIs
  <1>2. UNCHANGED <<prefs, netmode, newest, bundle, env, agent, past>>
    BY <1>1 DEF machineVars, hostVars
  <1>3. run.good /\ past.exit = Unended /\ ~past.settled /\ (past.clean => past.alone)
    BY <1>1 DEF InstallInd, InOrder, Early
  <1>4. past.alone => prefs = past.prefs /\ netmode = past.netmode /\ env = past.env /\ agent = past.agent
    BY <1>1 DEF InstallInd, UntouchedYet
  <1>5. run'.pc \in {"seed", "intent", "env"} /\ (run'.refused => run'.pc = "seed") /\ (run'.pc = "seed" => run'.refused)
    BY <1>1
  <1>6. InOrder'
    BY <1>1, <1>2, <1>3, <1>5 DEF InOrder, Early
  <1>7. UntouchedYet' /\ BridgedHostIsKept'
    BY <1>2, <1>4 DEF UntouchedYet, BridgedHostIsKept
  <1>8. Chosen'
    <2> SUFFICES ASSUME run'.pc = "intent"
                 PROVE  /\ Bridged' => c # bundle'.app
                        /\ past'.alone /\ run'.seen # {} => LastEther(prefs'[c]) = "slirp"
      BY <1>5 DEF Chosen
    <2>1. ~Refuses(c)
      BY <1>1, <1>5
    <2>2. run.seen # {} => LastEther(prefs[c]) = "slirp"
      BY <2>1 DEF Refuses, EmulatorRunning
    <2>3. Bridged' => c # bundle.app
      <3> SUFFICES ASSUME Bridged', c = bundle.app
                   PROVE  FALSE
        OBVIOUS
      <3>1. past.alone /\ ~run.args.force /\ bundle.helper /\ bundle.place = "known" /\ LastEther(past.prefs[bundle.app]) = "bridge"
        BY <1>1, <1>2 DEF Bridged
      <3>2. EtherhelperInUse(c)
        BY <1>4, <3>1 DEF EtherhelperInUse, HelperSeen, Found
      <3> QED
        BY <2>1, <3>2 DEF Refuses
    <2> QED
      BY <1>1, <1>2, <2>2, <2>3
  <1>9. Converts'
    <2>1. run'.pc = "env" => Slirped(run.choice)'
      BY <1>1, <1>2 DEF SetsBackend, Slirped
    <2>2. ~Carried' /\ past'.exit # 0
      BY <1>2, <1>3, <1>5 DEF Carried, Late, Unended
    <2> QED
      BY <1>5, <2>1, <2>2 DEF Converts
  <1>10. Rerun'
    <2> SUFFICES ASSUME run.seen = {}, run.args.force \/ ~bundle.helper
                 PROVE  ~Refuses(c)
      BY <1>1, <1>2, <1>3 DEF Rerun
    <2> QED
      BY DEF Refuses, EtherhelperInUse, HelperSeen, EmulatorRunning
  <1>11. Settled'
    BY <1>2, <1>3 DEF Settled
  <1> QED
    BY <1>6, <1>7, <1>8, <1>9, <1>10, <1>11 DEF InstallInd

\* The record is written.
LEMMA IntentKeeps ==
    ASSUME HostTypeOK, InstallInd, NEW fault \in BOOLEAN, Intent(fault)
    PROVE  InstallInd'
  <1> DEFINE c == run.choice
  <1>1. /\ run.pc = "intent" /\ run'.pc = (IF fault THEN "seed" ELSE "check") /\ run'.good = ~fault
        /\ run'.args = run.args /\ run'.seen = run.seen /\ run'.choice = c /\ run'.refused = run.refused
        /\ past'.prefs = past.prefs /\ past'.netmode = past.netmode /\ past'.alone = past.alone
        /\ past'.exit = past.exit /\ past'.settled = past.settled /\ past'.clean = (past.clean /\ ~fault)
        /\ \A e \in Emulator : netmode'[e] = IF e = c /\ ~fault THEN "slirp" ELSE netmode[e]
        /\ UNCHANGED <<prefs, newest, up, bundle, env, agent, disk, vol>>
    BY IntentIs DEF RunKept, PastKept, PastRest
  <1>2. /\ netmode \in [Emulator -> Backend \union {"none"}] /\ netmode' \in [Emulator -> Backend \union {"none"}]
        /\ c \in Emulator /\ bundle.app \in Emulator /\ past.netmode \in [Emulator -> Backend \union {"none"}]
    BY IntentIs DEF HostTypeOK, MachineTypeOK, InstallTypeOK, RunState, Bundle, PastState
  <1>3. run.good /\ ~run.refused /\ past.exit = Unended /\ ~past.settled /\ (past.clean => past.alone)
    BY <1>1 DEF InstallInd, InOrder, Early
  <1>4. run'.pc \in {"seed", "check"} /\ (run'.pc = "seed" <=> fault)
    BY <1>1
  <1>5. InOrder'
    BY <1>1, <1>3, <1>4 DEF InOrder, Early
  <1>6. UntouchedYet'
    <2>1. past.alone => prefs = past.prefs /\ netmode = past.netmode
      BY <1>1 DEF InstallInd, UntouchedYet
    <2> QED
      BY <1>1, <1>2, <1>3, <1>4, <2>1 DEF UntouchedYet
  <1>7. BridgedHostIsKept'
    <2> SUFFICES ASSUME Bridged
                 PROVE  prefs'[bundle.app] = past.prefs[bundle.app] /\ netmode'[bundle.app] = past.netmode[bundle.app]
      BY <1>1 DEF BridgedHostIsKept, Bridged
    <2>1. bundle.app # c
      BY <1>1 DEF InstallInd, Chosen
    <2>2. prefs[bundle.app] = past.prefs[bundle.app] /\ netmode[bundle.app] = past.netmode[bundle.app]
      BY DEF InstallInd, BridgedHostIsKept, Bridged
    <2> QED
      BY <1>1, <1>2, <2>1, <2>2
  <1>8. Chosen'
    BY <1>1 DEF InstallInd, Chosen, Bridged
  <1>9. Converts'
    <2>1. ~fault => netmode'[c] = "slirp"
      BY <1>1, <1>2
    <2>2. run'.pc = "seed" => ~run'.good
      BY <1>1, <1>4
    <2>3. ~Carried' /\ past'.exit # 0
      BY <1>1, <1>3, <1>4, <2>2 DEF Carried, Late, Unended
    <2> QED
      BY <1>1, <1>4, <2>1, <2>3 DEF Converts
  <1>10. Rerun' /\ Settled'
    BY <1>1, <1>3, <1>4 DEF Rerun, Settled, Late
  <1> QED
    BY <1>5, <1>6, <1>7, <1>8, <1>9, <1>10 DEF InstallInd

\* The script rewrites the prefs.
LEMMA CheckKeeps ==
    ASSUME HostTypeOK, InstallInd, NEW fault \in BOOLEAN, Check(fault)
    PROVE  InstallInd'
  <1> DEFINE c == run.choice
  <1>1. /\ run.pc = "check" /\ run'.good = (LastEther(prefs'[c]) = "slirp")
        /\ run'.pc = (IF run'.good THEN "env" ELSE "seed")
        /\ run'.args = run.args /\ run'.seen = run.seen /\ run'.choice = c /\ run'.refused = run.refused
        /\ past'.prefs = past.prefs /\ past'.netmode = past.netmode /\ past'.alone = past.alone
        /\ past'.exit = past.exit /\ past'.settled = past.settled /\ past'.clean = (past.clean /\ ~fault)
        /\ UNCHANGED <<up, bundle, env, agent, disk, vol>>
    BY CheckStepIs DEF RunKept, PastKept, PastRest
  <1>2. /\ MachineTypeOK /\ c \in Emulator /\ bundle.app \in Emulator /\ netmode[c] = "slirp"
    BY <1>1 DEF HostTypeOK, MachineTypeOK, InstallTypeOK, RunState, Bundle, InstallInd, Converts
  <1>3. /\ netmode' = netmode /\ \A x \in Emulator : x # c => prefs'[x] = prefs[x]
        /\ IF fault THEN prefs' = prefs
           ELSE prefs'[c] = IF prefs[c] = NoFile \/ FirstEther(prefs[c]) = "slirp" THEN prefs[c] ELSE <<"slirp">>
    <2>1. IF fault THEN UNCHANGED <<prefs, netmode, newest>> ELSE CheckEtherBackend(c)
      BY CheckStepIs
    <2>2. CASE fault
      BY <2>1, <2>2
    <2>3. CASE ~fault
      BY <1>2, <2>1, <2>3, CheckIs
    <2> QED
      BY <2>2, <2>3
  <1>4. run.good /\ ~run.refused /\ past.exit = Unended /\ ~past.settled /\ (past.clean => past.alone)
    BY <1>1 DEF InstallInd, InOrder, Early
  <1>5. run'.pc \in {"seed", "env"} /\ (run'.pc = "env" <=> run'.good)
    BY <1>1
  <1>6. InOrder'
    BY <1>1, <1>4, <1>5 DEF InOrder, Early
  <1>7. UntouchedYet'
    BY <1>1, <1>3, <1>4, <1>5 DEF InstallInd, UntouchedYet
  <1>8. BridgedHostIsKept'
    <2> SUFFICES ASSUME Bridged
                 PROVE  prefs'[bundle.app] = past.prefs[bundle.app] /\ netmode'[bundle.app] = past.netmode[bundle.app]
      BY <1>1 DEF BridgedHostIsKept, Bridged
    <2>1. bundle.app # c
      BY <1>1 DEF InstallInd, Chosen
    <2>2. prefs[bundle.app] = past.prefs[bundle.app] /\ netmode[bundle.app] = past.netmode[bundle.app]
      BY DEF InstallInd, BridgedHostIsKept, Bridged
    <2> QED
      BY <1>2, <1>3, <2>1, <2>2
  <1>9. Chosen'
    BY <1>5 DEF Chosen
  <1>10. Converts'
    <2>1. run'.pc = "env" => Slirped(c)'
      BY <1>1, <1>2, <1>3, <1>5 DEF Slirped
    <2>2. ~Carried' /\ past'.exit # 0
      BY <1>1, <1>4, <1>5 DEF Carried, Late, Unended
    <2> QED
      BY <1>1, <1>5, <2>1, <2>2 DEF Converts
  <1>11. Rerun'
    <2> SUFFICES ASSUME past.clean, ~fault, OneLine(past.prefs[c])
                 PROVE  run'.good /\ ~run'.refused
      BY <1>1 DEF Rerun
    <2>1. prefs = past.prefs
      BY <1>1, <1>4 DEF InstallInd, UntouchedYet
    <2>2. prefs[c] \in Prefs /\ prefs[c] # NoFile /\ FirstEther(prefs[c]) = LastEther(prefs[c])
      BY <1>2, <2>1, EtherIs DEF MachineTypeOK, OneLine
    <2>3. LastEther(<<"slirp">>) = "slirp"
      BY EtherIs DEF Backend
    <2> QED
      BY <1>1, <1>3, <1>4, <2>2, <2>3
  <1>12. Settled'
    BY <1>1, <1>4 DEF Settled
  <1> QED
    BY <1>6, <1>7, <1>8, <1>9, <1>10, <1>11, <1>12 DEF InstallInd

\* The file is written.
LEMMA WriteEnvKeeps ==
    ASSUME HostTypeOK, InstallInd, NEW fault \in BOOLEAN, WriteEnv(fault)
    PROVE  InstallInd'
  <1>1. /\ run.pc = "env" /\ run'.good = ~fault
        /\ run'.pc = (IF fault \/ ~run.args.agent THEN "seed" ELSE "agent")
        /\ run'.args = run.args /\ run'.seen = run.seen /\ run'.choice = run.choice /\ run'.refused = run.refused
        /\ past'.prefs = past.prefs /\ past'.netmode = past.netmode /\ past'.alone = past.alone
        /\ past'.exit = past.exit /\ past'.settled = past.settled /\ past'.clean = (past.clean /\ ~fault)
        /\ ~fault => env'.present /\ env'.addr = "none" /\ env'.app # "moved"
        /\ UNCHANGED <<prefs, netmode, newest, up, bundle, agent, disk, vol>>
    BY WriteEnvIs DEF RunKept, PastKept, PastRest
  <1>2. run.good /\ ~run.refused /\ past.exit = Unended /\ ~past.settled /\ (past.clean => past.alone)
    BY <1>1 DEF InstallInd, InOrder, Early
  <1>3. run'.pc \in {"seed", "agent"} /\ (fault => run'.pc = "seed") /\ (~fault /\ run'.pc = "seed" => ~run'.args.agent)
    BY <1>1
  <1>4. run'.good => ~fault
    BY <1>1
  <1>5. InOrder'
    BY <1>1, <1>2, <1>3 DEF InOrder, Early
  <1>6. UntouchedYet' /\ BridgedHostIsKept'
    BY <1>1, <1>2, <1>3 DEF InstallInd, UntouchedYet, BridgedHostIsKept
  <1>7. Chosen'
    BY <1>3 DEF Chosen
  <1>8. Converts'
    <2>1. Slirped(run.choice)'
      BY <1>1 DEF InstallInd, Converts, Slirped
    <2>2. run'.pc = "agent" \/ Carried' => ~fault
      BY <1>3, <1>4 DEF Carried
    <2>3. Carried' => ~run'.args.agent
      BY <1>3, <1>4 DEF Carried, Late
    <2> QED
      BY <1>1, <1>3, <2>1, <2>2, <2>3 DEF Converts
  <1>9. Rerun' /\ Settled'
    BY <1>1, <1>2, <1>3 DEF Rerun, Settled, Late
  <1> QED
    BY <1>5, <1>6, <1>7, <1>8, <1>9 DEF InstallInd

\* The agent is installed.
LEMMA InstallAgentKeeps ==
    ASSUME HostTypeOK, InstallInd, NEW fault \in BOOLEAN, InstallAgent(fault)
    PROVE  InstallInd'
  <1>1. /\ run.pc = "agent" /\ run'.good = Serving' /\ run'.pc = "seed"
        /\ run'.args = run.args /\ run'.seen = run.seen /\ run'.choice = run.choice /\ run'.refused = run.refused
        /\ past'.prefs = past.prefs /\ past'.netmode = past.netmode /\ past'.alone = past.alone
        /\ past'.exit = past.exit /\ past'.settled = past.settled /\ past'.clean = (past.clean /\ ~fault)
        /\ ~fault => /\ agent'.state = IF agent.state = "disabled" THEN "disabled" ELSE "loaded"
                     /\ agent'.deployed /\ agent'.addr = env.addr
        /\ UNCHANGED <<prefs, netmode, newest, up, bundle, env, disk, vol>>
    BY InstallAgentIs DEF RunKept, PastKept, PastRest
  <1>2. run.good /\ ~run.refused /\ past.exit = Unended /\ ~past.settled /\ (past.clean => past.alone)
    BY <1>1 DEF InstallInd, InOrder, Early
  <1>3. Slirped(run.choice) /\ env.present /\ env.addr = "none" /\ env.app # "moved"
    BY <1>1 DEF InstallInd, Converts
  <1>4. InOrder'
    BY <1>1, <1>2 DEF InOrder, Early
  <1>5. UntouchedYet' /\ BridgedHostIsKept'
    BY <1>1, <1>2 DEF InstallInd, UntouchedYet, BridgedHostIsKept
  <1>6. Chosen'
    BY <1>1 DEF Chosen
  <1>7. Converts'
    <2>1. Slirped(run.choice)'
      BY <1>1, <1>3 DEF Slirped
    <2>2. Carried' => Serving'
      BY <1>1 DEF Carried
    <2> QED
      BY <1>1, <1>3, <2>1, <2>2 DEF Converts
  <1>8. Rerun'
    <2> SUFFICES ASSUME ~fault, agent'.state # "disabled"
                 PROVE  Serving' /\ ~run'.refused
      BY <1>1 DEF Rerun
    <2> QED
      BY <1>1, <1>2, <1>3 DEF Serving
  <1>9. Settled'
    BY <1>1, <1>2 DEF Settled
  <1> QED
    BY <1>4, <1>5, <1>6, <1>7, <1>8, <1>9 DEF InstallInd

\* The run is over.
LEMMA ExitKeeps ==
    ASSUME HostTypeOK, InstallInd, Exit
    PROVE  InstallInd'
  <1>1. /\ run.pc = "exit" /\ run'.pc = "idle" /\ run'.good = run.good
        /\ run'.args = run.args /\ run'.seen = run.seen /\ run'.choice = run.choice /\ run'.refused = run.refused
        /\ past'.prefs = past.prefs /\ past'.netmode = past.netmode
        /\ past'.env = past.env /\ past'.agent = past.agent
        /\ past'.alone = past.alone /\ past'.clean = past.clean
        /\ past'.exit \in {0, 1, 3} /\ past'.settled = (past'.exit = 0)
        /\ past'.exit = 0 => run.good /\ ~run.refused
        /\ UNCHANGED <<prefs, netmode, newest, up, bundle, env, agent>>
    BY ExitIs DEF RunKept, machineVars, hostVars
  <1>2. past'.exit = 0 => Carried
    BY <1>1 DEF Carried, Late
  <1>3. past'.exit = 0 => /\ Slirped(run.choice) /\ env.present /\ env.addr = "none" /\ env.app # "moved"
                          /\ run.args.agent => Serving
    BY <1>2 DEF InstallInd, Converts
  <1>4. InOrder'
    BY <1>1 DEF InstallInd, InOrder, Early
  <1>5. UntouchedYet' /\ BridgedHostIsKept'
    BY <1>1 DEF InstallInd, UntouchedYet, BridgedHostIsKept
  <1>6. Chosen' /\ Rerun'
    BY <1>1 DEF Chosen, Rerun, Late
  <1>7. Converts'
    BY <1>1, <1>3 DEF Converts, Carried, Late, Slirped
  <1>8. Settled'
    BY <1>1, <1>3 DEF Settled, ExitZeroIsTruth, Slirped, Serving
  <1> QED
    BY <1>4, <1>5, <1>6, <1>7, <1>8 DEF InstallInd

\* Whatever the installer does.
LEMMA InstallNextKeeps ==
    ASSUME HostTypeOK, InstallInd, InstallNext
    PROVE  InstallInd'
  <1>1. ASSUME NEW a \in supply.commands, Begin(a)
        PROVE  InstallInd'
    BY <1>1, BeginIs, FreshKeeps, Zenon
  <1>2. CASE Killed
    <2>1. UNCHANGED hostVars /\ run' = Resting /\ past' = Fresh
      BY <1>2, KilledIs
    <2>2. Resting.pc = "idle" /\ Resting.good /\ ~Resting.refused
      BY Zenon DEF Resting
    <2> QED
      BY <2>1, <2>2, FreshKeeps
  <1>3. ASSUME NEW fault \in BOOLEAN, Intent(fault) \/ Check(fault) \/ WriteEnv(fault) \/ InstallAgent(fault)
        PROVE  InstallInd'
    BY <1>3, IntentKeeps, CheckKeeps, WriteEnvKeeps, InstallAgentKeeps
  <1>4. CASE SeedUnanswered \/ SeedReads \/ Verify
             \/ \E fault \in BOOLEAN : \/ SeedBegins(fault) \/ SeedWrites(fault) \/ KitBegins(fault) \/ Pull(fault) \/ Format(fault) \/ Place(fault)
    BY <1>4, LateStepIs, LateStepKeeps
  <1> QED
    BY <1>1, <1>2, <1>3, <1>4, DecideKeeps, ExitKeeps DEF InstallNext

\* The record of an emulator that is on slirp keeps it there.
LEMMA SlirpedStays ==
    ASSUME MachineTypeOK, NEW e \in Emulator, CheckEtherBackend(e)
    PROVE  /\ \A x \in Emulator : netmode[x] # "none" => netmode'[x] = netmode[x]
           /\ \A x \in Emulator : Slirped(x) => Slirped(x)'
  <1>1. \A x \in Emulator : x # e => prefs'[x] = prefs[x] /\ netmode'[x] = netmode[x]
    BY CheckIs
  <1>2. netmode[e] # "none" => /\ netmode' = netmode
                               /\ prefs'[e] = IF prefs[e] = NoFile \/ FirstEther(prefs[e]) = netmode[e] THEN prefs[e] ELSE <<netmode[e]>>
    BY CheckIs
  <1>3. LastEther(<<"slirp">>) = "slirp"
    BY EtherIs DEF Backend
  <1> QED
    BY <1>1, <1>2, <1>3 DEF Slirped

\* What others do to the machine, the installer's history is told.
LEMMA OutsideKeeps ==
    ASSUME HostTypeOK, InstallInd, Disturbed, UNCHANGED <<run, bundle>>,
           \A e \in Emulator : Slirped(e) => Slirped(e)',
           run.pc # "idle" => /\ UNCHANGED <<env, agent>>
                              /\ \A e \in Emulator : netmode[e] # "none" => netmode'[e] = netmode[e]
    PROVE  InstallInd'
  <1>1. /\ past'.exit = past.exit /\ past'.alone = FALSE /\ past'.clean = FALSE /\ past'.settled = FALSE
        /\ run' = run /\ bundle' = bundle /\ run.choice \in Emulator
    BY DisturbedIs DEF HostTypeOK, InstallTypeOK, RunState
  <1>2. InOrder'
    BY <1>1 DEF InstallInd, InOrder
  <1>3. UntouchedYet' /\ BridgedHostIsKept' /\ Rerun' /\ Settled'
    BY <1>1 DEF UntouchedYet, BridgedHostIsKept, Rerun, Settled
  <1>4. Chosen'
    BY <1>1 DEF Chosen, Bridged
  <1>5. Converts'
    <2>1. run.pc = "check" => netmode'[run.choice] = "slirp"
      BY <1>1 DEF InstallInd, Converts
    <2>2. run.pc \in {"env", "agent"} \/ Carried \/ past.exit = 0 => Slirped(run.choice)'
      BY <1>1 DEF InstallInd, Converts, Slirped
    <2>3. Carried \/ run.pc = "agent" => env' = env /\ agent' = agent
      BY DEF Carried, Late
    <2> QED
      BY <1>1, <2>1, <2>2, <2>3 DEF InstallInd, Converts, Carried, Serving
  <1> QED
    BY <1>2, <1>3, <1>4, <1>5 DEF InstallInd

\* Where neither the installer nor the machine is changed.
LEMMA ApartKeeps ==
    ASSUME InstallInd, UNCHANGED <<prefs, netmode, bundle, env, agent, run, past>>
    PROVE  InstallInd'
  <1>1. InOrder' /\ UntouchedYet' /\ BridgedHostIsKept' /\ Chosen'
    BY DEF InstallInd, InOrder, UntouchedYet, BridgedHostIsKept, Chosen, Bridged
  <1>2. Converts' /\ Rerun' /\ Settled'
    BY DEF InstallInd, Converts, Carried, Slirped, Serving, Rerun, OneLine, Settled, ExitZeroIsTruth
  <1> QED
    BY <1>1, <1>2 DEF InstallInd

\* Every step of the host keeps what the installer relies on.
LEMMA InstallKept ==
    ASSUME TypesInd, InstallInd, [HostNext]_hostToolVars
    PROVE  InstallInd'
  <1>1. CASE InstallStep
    BY <1>1, InstallNextKeeps DEF TypesInd, InstallStep
  <1>2. CASE EmulatorStep
    <2>1. PICK e \in Emulator : (\E byStack, work \in BOOLEAN : Launch(e, byStack, work)) \/ Quit(e) \/ HelperDies(e)
      BY <1>2 DEF EmulatorStep, EmulatorNext
    <2>2. /\ UNCHANGED <<bundle, env, agent>> /\ MachineTypeOK
          /\ CheckEtherBackend(e) \/ UNCHANGED <<prefs, netmode>>
      BY <2>1, LaunchIs, StopsIs DEF TypesInd, HostTypeOK
    <2>3. /\ \A x \in Emulator : netmode[x] # "none" => netmode'[x] = netmode[x]
          /\ \A x \in Emulator : Slirped(x) => Slirped(x)'
      <3>1. CASE CheckEtherBackend(e)
        BY <2>2, <3>1, SlirpedStays
      <3>2. CASE UNCHANGED <<prefs, netmode>>
        BY <3>2 DEF Slirped
      <3> QED
        BY <2>2, <3>1, <3>2
    <2> QED
      BY <1>2, <2>2, <2>3, OutsideKeeps DEF TypesInd, EmulatorStep
  <1>3. CASE FollowStep
    <2>1. /\ run.pc = "idle" /\ Disturbed /\ UNCHANGED <<run, bundle>>
          /\ \A e \in Emulator : Slirped(e) => Slirped(e)'
      BY <1>3, FollowIs DEF TypesInd, FollowStep
    <2> QED
      BY <2>1, OutsideKeeps DEF TypesInd
  <1>4. CASE DoctorStep
    BY <1>4, DoctorNextIs, ApartKeeps DEF TypesInd, DoctorStep, installVars
  <1>5. CASE OnTable(TableNext) \/ UNCHANGED hostToolVars
    BY <1>5, ApartKeeps DEF OnTable, hostToolVars, machineVars, hostVars, installVars
  <1> QED
    BY <1>1, <1>2, <1>3, <1>4, <1>5 DEF HostNext

\* Before its first run.
LEMMA InstallBegins == HostInit => InstallInd
  <1> SUFFICES ASSUME HostInit
               PROVE  InstallInd
    OBVIOUS
  <1>1. run = Resting /\ past = Fresh
    BY DEF HostInit, InstallInit
  <1>2. /\ run.pc = "idle" /\ ~run.refused /\ past.prefs = prefs /\ past.netmode = netmode /\ past.exit = Unended /\ ~past.settled
        /\ past.alone /\ past.clean
    BY <1>1, Zenon DEF Resting, Fresh
  <1>3. InOrder /\ UntouchedYet /\ BridgedHostIsKept
    BY <1>2 DEF InOrder, Early, UntouchedYet, BridgedHostIsKept
  <1>4. Chosen /\ Converts /\ Rerun /\ Settled
    BY <1>2 DEF Chosen, Converts, Carried, Rerun, Settled, Late, Unended
  <1> QED
    BY <1>3, <1>4 DEF InstallInd

\* What the host's steps keep, of the types, the table, the doctor's look and the installer's plan.
HostInd == TypesInd /\ DoctorSees /\ InstallInd

\* It is kept.
LEMMA HostKept ==
    /\ HostInit => HostInd
    /\ HostInd /\ [HostNext]_hostToolVars => HostInd'
  BY HostBegins, DoctorBegins, InstallBegins, TypesKept, DoctorSeesKept, InstallKept DEF HostInd

\* The doctor has nothing against a success, but for the guest's address and the table.
LEMMA AgreesIs ==
    ASSUME HostInd
    PROVE  DoctorAgrees
  <1> SUFFICES ASSUME past.settled, run.args.agent, doctor.done, doctor.quiet, Resolved(UpNow, "none") = run.choice
               PROVE  doctor.report \subseteq {"guest_ip_stale"} \union RowFinding
    BY DEF DoctorAgrees
  <1>1. /\ LastEther(prefs[run.choice]) = "slirp" /\ netmode[run.choice] = "slirp"
        /\ env.addr = "none" /\ env.app # "moved" /\ Serving
    BY DEF HostInd, InstallInd, Settled, ExitZeroIsTruth
  <1>2. doctor.report = Interpret(Now)
    BY DEF HostInd, DoctorSees
  <1>3. Now.ether = "slirp" /\ Now.intended = "slirp" /\ Now.env.addr = "none" /\ Now.env.app # "moved"
        /\ Now.agent = agent.state /\ Now.serving = Serving /\ Now.deployed = agent.deployed
    BY <1>1 DEF Now
  <1>4. agent.state \in {"hand", "loaded"} /\ (agent.state = "loaded" => agent.deployed)
    BY <1>1 DEF Serving
  <1>5. /\ "launchd_disabled" \notin Interpret(Now) /\ "launchd_absent" \notin Interpret(Now)
        /\ "host_server_not_running" \notin Interpret(Now) /\ "control_port_closed" \notin Interpret(Now)
    BY <1>1, <1>3, <1>4, InterpretIs
  <1>6. /\ "host_ip_missing" \notin Interpret(Now) /\ "host_ip_duplicate" \notin Interpret(Now)
        /\ "host_ip_wrong_interface" \notin Interpret(Now)
        /\ "ether_slirp" \notin Interpret(Now) /\ "ether_drift" \notin Interpret(Now)
        /\ "etherhelper_dead" \notin Interpret(Now)
    BY <1>3, InterpretIs
  <1>7. /\ "local_env_has_host_ip" \notin Interpret(Now) /\ "emulator_app_stale" \notin Interpret(Now)
        /\ "deploy_missing" \notin Interpret(Now)
    BY <1>3, <1>4, InterpretIs DEF AddressOnSlirp
  <1> QED
    BY <1>2, <1>5, <1>6, <1>7, FindingsAre, InterpretIs

\* The doctor gives no false alarm: not after a success, for every machine and every way in
\* which the installer came to it, nor about guests that are served.
THEOREM NoFalseAlarmHolds == HostSpec => []NoFalseAlarm
  <1>1. HostInit => HostInd
    BY HostKept
  <1>2. HostInd /\ [HostNext]_hostToolVars => HostInd'
    BY HostKept
  <1>3. HostInd => NoFalseAlarm
    BY AgreesIs, RowsHealthy DEF HostInd, NoFalseAlarm
  <1> QED
    BY <1>1, <1>2, <1>3, PTL DEF HostSpec

\* The installer starts and stops no emulator.
LEMMA UpStays ==
    ASSUME InstallNext
    PROVE  up' = up
  <1>1. (\E a \in supply.commands : Begin(a)) \/ Decide \/ Exit \/ Killed => up' = up
    BY Zenon DEF Begin, Decide, Exit, Killed, machineVars, hostVars
  <1>2. SeedUnanswered \/ SeedReads \/ Verify => up' = up
    BY Zenon DEF SeedUnanswered, SeedReads, Verify
  <1>3. ASSUME NEW fault \in BOOLEAN, Intent(fault) \/ Check(fault) \/ WriteEnv(fault) \/ InstallAgent(fault)
        PROVE  up' = up
    BY <1>3, Zenon DEF Intent, Check, WriteEnv, InstallAgent
  <1>4. ASSUME NEW fault \in BOOLEAN, SeedBegins(fault) \/ SeedWrites(fault) \/ KitBegins(fault)
        PROVE  up' = up
    BY <1>4, Zenon DEF SeedBegins, SeedWrites, KitBegins
  <1>5. ASSUME NEW fault \in BOOLEAN, Pull(fault) \/ Format(fault) \/ Place(fault)
        PROVE  up' = up
    BY <1>5, Zenon DEF Pull, Format, Place
  <1> QED
    BY <1>1, <1>2, <1>3, <1>4, <1>5 DEF InstallNext

\* An emulator that starts on a converted host is on slirp.
LEMMA StartsOnSlirp ==
    ASSUME HostInd, HostNext, NEW e \in Emulator, past.exit = 0, e = run.choice, OneLine(prefs[e]),
           up[e] = Off, up'[e] # Off
    PROVE  up'[e].ether = "slirp"
  <1>1. Slirped(e)
    BY DEF HostInd, InstallInd, Converts
  <1>2. /\ HostTypeOK /\ MachineTypeOK /\ prefs \in [Emulator -> Prefs]
    BY DEF HostInd, TypesInd, HostTypeOK, MachineTypeOK
  <1>3. CASE InstallStep
    <2>1. up' = up
      BY <1>3, UpStays DEF InstallStep
    <2> QED
      BY <2>1
  <1>4. CASE EmulatorStep
    <2>1. PICK x \in Emulator : (\E byStack, work \in BOOLEAN : Launch(x, byStack, work)) \/ Quit(x) \/ HelperDies(x)
      BY <1>4 DEF EmulatorStep, EmulatorNext
    <2>2. PICK byStack \in BOOLEAN, work \in BOOLEAN : Launch(x, byStack, work)
      BY <1>2, <2>1, StopsIs
    <2>3. x = e
      BY <1>2, <2>2, LaunchIs
    <2>4. up'[e].ether = FirstEther(prefs'[e])
      BY <1>2, <2>2, <2>3, LaunchIs
    <2>5. FirstEther(prefs[e]) = "slirp"
      BY <1>1, <1>2, EtherIs DEF Slirped
    <2>6. IF byStack THEN CheckEtherBackend(e) ELSE prefs' = prefs
      BY <1>2, <2>2, <2>3, LaunchIs
    <2>7. prefs'[e] = prefs[e]
      <3>1. CASE byStack
        <4>1. CheckEtherBackend(e)
          BY <2>6, <3>1
        <4> QED
          BY <1>1, <1>2, <2>5, <4>1, CheckIs DEF Slirped
      <3>2. CASE ~byStack
        BY <2>6, <3>2
      <3> QED
        BY <3>1, <3>2
    <2> QED
      BY <2>4, <2>5, <2>7
  <1>5. CASE DoctorStep
    BY <1>2, <1>5, DoctorNextIs DEF DoctorStep
  <1>6. CASE FollowStep
    BY <1>2, <1>6, FollowIs DEF FollowStep
  <1>7. CASE OnTable(TableNext)
    BY <1>7 DEF OnTable, hostVars
  <1> QED
    BY <1>3, <1>4, <1>5, <1>6, <1>7 DEF HostNext

\* After a conversion that succeeded every start of the emulator is on slirp, whoever starts it.
THEOREM ConvertedHolds == HostSpec => ConvertedForGood
  <1>1. HostInit => HostInd
    BY HostKept
  <1>2. HostInd /\ [HostNext]_hostToolVars => HostInd'
    BY HostKept
  <1>3. HostInd /\ [HostNext]_hostToolVars =>
            [\A e \in Emulator :
                past.exit = 0 /\ e = run.choice /\ OneLine(prefs[e]) /\ up[e] = Off /\ up'[e] # Off
                => up'[e].ether = "slirp"]_hostToolVars
    BY StartsOnSlirp
  <1> QED
    BY <1>1, <1>2, <1>3, PTL DEF HostSpec, ConvertedForGood

-----------------------------------------------------------------------------
(* The emulators that run while the installer does *)

\* What they rely on is kept.
LEMMA ThroughKept ==
    ASSUME HostInd, Through, [HostNext]_hostToolVars
    PROVE  Through'
  <1>1. /\ HostTypeOK /\ past.through \subseteq Emulator
    BY DEF HostInd, TypesInd, HostTypeOK, InstallTypeOK, PastState
  <1>2. CASE InstallStep
    <2>1. up' = up
      BY <1>2, UpStays DEF InstallStep
    <2>2. ASSUME run'.pc \in {"idle", "decide"}, past' = Fresh, run'.pc # "idle" => run'.seen = UpNow
          PROVE  Through'
      BY <2>1, <2>2, Zenon DEF Through, Fresh, UpNow
    <2>3. ASSUME NEW a \in supply.commands, Begin(a)
          PROVE  Through'
      <3>1. run'.pc = "decide" /\ past' = Fresh /\ run'.seen = UpNow
        BY <1>1, <2>3, BeginIs
      <3> QED
        BY <2>2, <3>1
    <2>4. CASE Killed
      <3>1. run' = Resting /\ past' = Fresh
        BY <1>1, <2>4, KilledIs
      <3>2. Resting.pc = "idle"
        BY Zenon DEF Resting
      <3> QED
        BY <2>2, <3>1, <3>2
    <2>5. ASSUME past'.through = past.through, run'.seen = run.seen, run.pc # "idle",
                 run'.pc \in {"seedread", "seedwrite"} => run.seen = {},
                 run'.pc \in {"pull", "format", "place", "verify"} =>
                    run.pc \in {"pull", "format", "place", "verify"} \/ ~ImageInUse
          PROVE  Through'
      <3>1. \A e \in past.through : up[e] # Off
        BY DEF Through
      <3>2. past.through \subseteq run.seen
        BY <2>5 DEF Through
      <3>3. ~ImageInUse => \A e \in past.through : ~up[e].work
        BY <3>2 DEF ImageInUse
      <3>4. run'.pc \in {"pull", "format", "place", "verify"} => \A e \in past.through : ~up[e].work
        BY <2>5, <3>3 DEF Through
      <3> QED
        BY <2>1, <2>5, <3>1, <3>2, <3>4 DEF Through
    <2>6. CASE Decide
      BY <1>1, <2>5, <2>6, DecideIs
    <2>7. CASE Exit
      BY <1>1, <2>5, <2>7, ExitIs DEF RunKept
    <2>8. CASE SeedReads \/ Verify
      <3>1. run.pc = "seedread" => run.seen = {}
        BY DEF Through
      <3> QED
        BY <1>1, <2>5, <2>8, <3>1, SeedReadsIs, VerifyIs DEF RunKept
    <2>9. ASSUME NEW fault \in BOOLEAN, Intent(fault) \/ Check(fault) \/ WriteEnv(fault) \/ InstallAgent(fault)
          PROVE  Through'
      BY <1>1, <2>5, <2>9, IntentIs, CheckStepIs, WriteEnvIs, InstallAgentIs DEF RunKept, PastKept, PastRest
    <2>12. CASE SeedUnanswered
      BY <1>1, <2>5, <2>12, SeedUnansweredIs DEF RunKept, PastRest
    <2>10. ASSUME NEW fault \in BOOLEAN, SeedBegins(fault) \/ SeedWrites(fault) \/ KitBegins(fault)
           PROVE  Through'
      BY <1>1, <2>5, <2>10, SeedBeginsIs, SeedWritesIs, KitBeginsIs DEF RunKept, PastKept, PastRest
    <2>11. ASSUME NEW fault \in BOOLEAN, Pull(fault) \/ Format(fault) \/ Place(fault)
           PROVE  Through'
      BY <1>1, <2>5, <2>11, PullIs, FormatIs, PlaceIs DEF RunKept, PastKept, PastRest
    <2> QED
      BY <1>2, <2>3, <2>4, <2>6, <2>7, <2>8, <2>9, <2>10, <2>11, <2>12 DEF InstallStep, InstallNext
  <1>3. ASSUME Disturbed, run' = run, \A x \in Emulator : up[x] # Off /\ up'[x] # Off => up'[x].work = up[x].work
        PROVE  Through'
    <2>1. past'.through = {e \in past.through : up'[e] # Off}
      BY <1>1, <1>3, DisturbedIs
    <2> QED
      BY <1>1, <1>3, <2>1 DEF Through
  <1>4. CASE EmulatorStep
    <2>1. PICK e \in Emulator : (\E byStack, work \in BOOLEAN : Launch(e, byStack, work)) \/ Quit(e) \/ HelperDies(e)
      BY <1>4 DEF EmulatorStep, EmulatorNext
    <2>2. \A x \in Emulator : up[x] # Off /\ up'[x] # Off => up'[x].work = up[x].work
      BY <1>1, <2>1, LaunchIs, StopsIs
    <2> QED
      BY <1>3, <1>4, <2>2 DEF EmulatorStep
  <1>5. CASE FollowStep
    BY <1>1, <1>3, <1>5, FollowIs DEF FollowStep
  <1>6. CASE up' = up /\ run' = run /\ past' = past
    BY <1>6 DEF Through
  <1> QED
    BY <1>1, <1>2, <1>4, <1>5, <1>6, DoctorNextIs
    DEF HostNext, DoctorStep, OnTable, hostToolVars, machineVars, hostVars, installVars

\* A step of the installer leaves what an emulator relies on that was up when the run began.
LEMMA LeavesAlone ==
    ASSUME HostInd, Through, HostNext, run' # run, NEW e \in past.through
    PROVE  /\ past.alone /\ FirstEther(prefs[e]) = LastEther(prefs[e]) => prefs'[e] = prefs[e]
           /\ up[e].work => disk'["work"] = disk["work"] /\ run'.staged \subseteq run.staged
  <1>1. /\ HostTypeOK /\ MachineTypeOK /\ InstallTypeOK /\ e \in Emulator /\ run.choice \in Emulator
    BY DEF HostInd, TypesInd, HostTypeOK, InstallTypeOK, PastState, RunState
  <1>2. InstallNext
    BY <1>1 DEF HostNext, InstallStep, EmulatorStep, DoctorStep, FollowStep, OnTable, installVars
  <1>3. /\ run.pc # "idle" => e \in run.seen
        /\ run.pc \in {"pull", "format", "place", "verify"} => ~up[e].work
        /\ run.pc # "seedwrite"
    BY DEF Through
  <1>4. ASSUME prefs' = prefs, disk' = disk, run'.staged \subseteq run.staged
        PROVE  /\ prefs'[e] = prefs[e]
               /\ disk'["work"] = disk["work"] /\ run'.staged \subseteq run.staged
    BY <1>4
  <1>5. ASSUME NEW fault \in BOOLEAN, Check(fault)
        PROVE  /\ past.alone /\ FirstEther(prefs[e]) = LastEther(prefs[e]) => prefs'[e] = prefs[e]
               /\ disk'["work"] = disk["work"] /\ run'.staged \subseteq run.staged
    <2>1. /\ run.pc = "check" /\ disk' = disk /\ run'.staged = run.staged
          /\ IF fault THEN prefs' = prefs ELSE CheckEtherBackend(run.choice)
      BY <1>1, <1>5, CheckStepIs
    <2>2. past.alone => LastEther(prefs[run.choice]) = "slirp"
      BY <1>3, <2>1 DEF HostInd, InstallInd, Chosen
    <2>3. netmode[run.choice] = "slirp"
      BY <2>1 DEF HostInd, InstallInd, Converts
    <2>4. ASSUME past.alone, FirstEther(prefs[e]) = LastEther(prefs[e])
          PROVE  prefs'[e] = prefs[e]
      <3>1. CASE fault
        BY <2>1, <3>1
      <3>2. CASE ~fault
        <4>1. CheckEtherBackend(run.choice)
          BY <2>1, <3>2
        <4>2. CASE e # run.choice
          BY <1>1, <4>1, <4>2, CheckIs
        <4>3. CASE e = run.choice
          <5>1. FirstEther(prefs[e]) = "slirp"
            BY <2>2, <2>4, <4>3
          <5> QED
            BY <1>1, <2>3, <4>1, <4>3, <5>1, CheckIs
        <4> QED
          BY <4>2, <4>3
      <3> QED
        BY <3>1, <3>2
    <2> QED
      BY <2>1, <2>4
  <1>6. ASSUME NEW a \in supply.commands, Begin(a)
        PROVE  prefs' = prefs /\ disk' = disk /\ run'.staged \subseteq run.staged
    BY <1>1, <1>6, BeginIs DEF hostVars
  <1>7. CASE Killed
    <2>1. run' = Resting /\ UNCHANGED hostVars /\ Resting.staged = {}
      BY <1>1, <1>7, KilledIs, Zenon DEF Resting
    <2> QED
      BY <1>4, <2>1 DEF hostVars
  <1>8. CASE Decide \/ Exit
    <2>1. UNCHANGED machineVars /\ run'.staged = run.staged
      BY <1>1, <1>8, DecideIs, ExitIs
    <2> QED
      BY <1>4, <2>1 DEF machineVars, hostVars
  <1>9. CASE SeedUnanswered \/ SeedReads \/ Verify
    BY <1>1, <1>4, <1>9, SeedUnansweredIs, SeedReadsIs, VerifyIs DEF ImagesOnly
  <1>10. ASSUME NEW fault \in BOOLEAN, Intent(fault) \/ WriteEnv(fault) \/ InstallAgent(fault) \/ SeedBegins(fault) \/ KitBegins(fault)
         PROVE  prefs' = prefs /\ disk' = disk /\ run'.staged \subseteq run.staged
    BY <1>1, <1>10, IntentIs, WriteEnvIs, InstallAgentIs, SeedBeginsIs, KitBeginsIs DEF ImagesOnly
  <1>11. ASSUME NEW fault \in BOOLEAN, SeedWrites(fault)
         PROVE  FALSE
    BY <1>1, <1>3, <1>11, SeedWritesIs
  <1>12. ASSUME NEW fault \in BOOLEAN, Pull(fault) \/ Format(fault) \/ Place(fault)
         PROVE  prefs' = prefs /\ ~up[e].work
    BY <1>1, <1>3, <1>12, PullIs, FormatIs, PlaceIs DEF ImagesOnly
  <1> QED
    BY <1>2, <1>4, <1>5, <1>6, <1>7, <1>8, <1>9, <1>10, <1>11, <1>12 DEF InstallNext

\* No step of the installer changes the prefs of an emulator that was up when its run began, if
\* they name one backend and nothing else changes the machine, nor the disk image that it holds
\* open.
THEOREM LeftAloneHolds == HostSpec => RunningGuestIsLeftAlone
  <1>1. HostInit => HostInd /\ Through
    <2>1. HostInit => HostInd
      BY HostKept
    <2>2. HostInit => Through
      <3> SUFFICES ASSUME HostInit
                   PROVE  Through
        OBVIOUS
      <3>1. run.pc = "idle" /\ past.through = UpNow
        BY Zenon DEF HostInit, InstallInit, Resting, Fresh
      <3> QED
        BY <3>1 DEF Through, UpNow
    <2> QED
      BY <2>1, <2>2
  <1>2. HostInd /\ Through /\ [HostNext]_hostToolVars => HostInd' /\ Through'
    BY HostKept, ThroughKept
  <1>3. HostInd /\ Through /\ [HostNext]_hostToolVars =>
            [run' # run =>
                \A e \in past.through :
                    /\ past.alone /\ FirstEther(prefs[e]) = LastEther(prefs[e]) => prefs'[e] = prefs[e]
                    /\ up[e].work => disk'["work"] = disk["work"] /\ run'.staged \subseteq run.staged]_hostToolVars
    BY LeavesAlone
  <1> QED
    BY <1>1, <1>2, <1>3, PTL DEF HostSpec, RunningGuestIsLeftAlone

-----------------------------------------------------------------------------
(* The images, when the installer and the doctor do not use hfsutils at the same time *)

\* What the seed may have made of the guest's disk.
Theirs(past_, seed, stale) ==
    {past_} \union (IF "work" \in {seed, stale} THEN {[past_ EXCEPT !.ip = "own"]} ELSE {})

\* What the kit lacks is nothing, or what the listing does not miss of a copy that failed.
KitIsWhole == Missing = {} \/ ("kit" \in past.lost /\ Missing \subseteq {"AppleBridge", PrefsFile})

\* The parts of it.
LEMMA DiskParts ==
    ASSUME DiskInd
    PROVE  /\ ~disk["work"].strange
           /\ past.alone => disk["work"] \in Theirs(past.work, run.args.seed, past.stale)
           /\ run.pc = "exit" /\ run.kit = "ok" =>
                /\ KitIsWhole /\ ~past.work.baked
                /\ run.args.kit = "release" => disk["kit"].ip \in {"none", "router"}
  BY DEF DiskInd, TheirDiskIsKept, KitCanBePublished, KitIsWhole, Theirs

\* A run that begins, and one that is killed, has touched no image.
LEMMA FreshDiskKeeps ==
    ASSUME DiskInd, UNCHANGED hostVars, past' = Fresh, run'.pc \in {"idle", "decide"}
    PROVE  DiskInd'
  <1>1. past'.work = disk'["work"] /\ disk' = disk /\ past'.stale = "none"
    BY Zenon DEF Fresh, hostVars
  <1>2. Disk' /\ SeedIsSo'
    BY <1>1 DEF Disk, InstallerMounts, SeedIsSo
  <1>3. TheirDiskIsKept'
    BY <1>1, DiskParts DEF TheirDiskIsKept
  <1>4. KitCanBePublished'
    BY DEF KitCanBePublished
  <1> QED
    BY <1>2, <1>3, <1>4 DEF DiskInd

\* A step of a run that changes no image.
LEMMA SameDiskKeeps ==
    ASSUME HostTypeOK, DiskInd, UNCHANGED <<disk>>, run'.args = run.args,
           past'.work = past.work, past'.alone => past.alone,
           past'.stale = past.stale \/ past.stale = "none",
           run'.pc \in Early \union {"seed"} => past'.stale = "none",
           ~(InstallerMounts' /\ DoctorMounts'), SeedIsSo',
           run'.pc \in {"format", "place", "verify"} => Required \subseteq run'.staged /\ ~past.work.baked,
           run'.pc \in {"seedread", "seedwrite"} => run.args.seed # "none" /\ vol' \in {run.args.seed, past'.stale},
           run'.pc = "seedwrite" => vol' # "none",
           run'.pc = "pull" => vol' = "work",
           run'.pc \notin {"place", "verify"},
           run'.pc = "exit" /\ run'.kit = "ok" => run.pc = "verify" /\ KitIsWhole'
    PROVE  DiskInd'
  <1>1. disk' = disk
    OBVIOUS
  <1>2. Disk'
    BY <1>1 DEF DiskInd, Disk
  <1>3. TheirDiskIsKept'
    BY <1>1 DEF DiskInd, TheirDiskIsKept
  <1>4. KitCanBePublished'
    BY <1>1 DEF DiskInd, Disk, KitCanBePublished, KitIsWhole
  <1> QED
    BY <1>2, <1>3, <1>4 DEF DiskInd

\* The steps of the installer.
LEMMA InstallDiskKeeps ==
    ASSUME HostTypeOK, DiskInd, InstallNext, doctor'.pc = doctor.pc, ~(InstallerMounts' /\ DoctorMounts')
    PROVE  DiskInd'
  <1>1. /\ disk \in [Image -> DiskState] /\ run \in RunState /\ past \in PastState /\ past.work \in DiskState
        /\ disk["work"] \in DiskState /\ disk["kit"] \in DiskState /\ MachineTypeOK
    BY DEF HostTypeOK, InstallTypeOK, MachineTypeOK, PastState, Image
  <1>2. ASSUME NEW a \in supply.commands, Begin(a)
        PROVE  DiskInd'
    <2>1. UNCHANGED hostVars /\ past' = Fresh /\ run'.pc = "decide"
      BY <1>2, BeginIs
    <2> QED
      BY <2>1, FreshDiskKeeps
  <1>3. CASE Killed
    <2>1. run' = Resting /\ UNCHANGED hostVars /\ past' = Fresh /\ Resting.pc = "idle"
      BY <1>3, KilledIs, Zenon DEF Resting
    <2> QED
      BY <2>1, FreshDiskKeeps
  <1>4. CASE Decide
    <2>1. /\ UNCHANGED <<past, machineVars>> /\ run'.args = run.args /\ run'.pc \in {"seed", "intent", "env"}
          /\ run.pc = "decide"
      BY <1>4, DecideIs
    <2>2. past.stale = "none" /\ SeedIsSo'
      BY <2>1 DEF DiskInd, Disk, Early, SeedIsSo
    <2> QED
      BY <2>1, <2>2, SameDiskKeeps DEF machineVars, hostVars
  <1>5. CASE Exit
    <2>1. /\ UNCHANGED machineVars /\ run'.args = run.args /\ run'.pc = "idle" /\ past'.work = past.work /\ past'.alone = past.alone
          /\ past'.stale = past.stale
      BY <1>5, ExitIs DEF RunKept
    <2>2. SeedIsSo' /\ run'.pc \notin Early
      BY <2>1 DEF SeedIsSo, Early
    <2> QED
      BY <2>1, <2>2, SameDiskKeeps DEF machineVars, hostVars
  <1>6. ASSUME NEW fault \in BOOLEAN, Intent(fault) \/ Check(fault) \/ WriteEnv(fault) \/ InstallAgent(fault)
        PROVE  DiskInd'
    <2>1. /\ disk' = disk /\ run'.args = run.args /\ run'.pc \in {"seed", "check", "env", "agent"}
          /\ past'.work = past.work /\ past'.alone = past.alone /\ past'.stale = past.stale /\ run.pc \in Early
      BY <1>6, IntentIs, CheckStepIs, WriteEnvIs, InstallAgentIs DEF RunKept, PastKept, PastRest, Early
    <2>2. past.stale = "none" /\ SeedIsSo'
      BY <2>1 DEF DiskInd, Disk, SeedIsSo
    <2> QED
      BY <2>1, <2>2, SameDiskKeeps
  <1>7. ASSUME NEW fault \in BOOLEAN, SeedBegins(fault)
        PROVE  DiskInd'
    <2>1. /\ disk' = disk /\ run'.args = run.args /\ past'.work = past.work /\ past'.alone = past.alone
          /\ \/ run'.pc = "kit" /\ run'.seed # "ok"
             \/ run'.pc = "seedread" /\ vol' = run.args.seed /\ run.args.seed # "none"
          /\ past'.stale = past.stale
      BY <1>7, SeedBeginsIs DEF RunKept, PastKept, PastRest
    <2>2. SeedIsSo' /\ run'.pc \notin Early
      BY <2>1 DEF SeedIsSo, Early
    <2> QED
      BY <2>1, <2>2, SameDiskKeeps
  <1>16. CASE SeedUnanswered
    <2>1. /\ disk' = disk /\ run'.args = run.args /\ past'.work = past.work /\ past'.alone = past.alone
          /\ run.pc = "seed" /\ run'.pc = "seedread" /\ run.args.seed # "none" /\ past'.stale = vol'
      BY <1>16, SeedUnansweredIs DEF RunKept, PastRest
    <2>2. past.stale = "none" /\ SeedIsSo' /\ run'.pc \notin Early
      BY <2>1 DEF DiskInd, Disk, SeedIsSo, Early
    <2> QED
      BY <2>1, <2>2, SameDiskKeeps
  <1>8. CASE SeedReads
    <2>1. /\ disk' = disk /\ run'.args = run.args /\ past' = past /\ run.pc = "seedread"
          /\ \/ run'.pc = "kit" /\ (run'.seed = "ok" => vol # "none" /\ disk[vol].ip = "own")
             \/ run'.pc = "seedwrite" /\ vol' = vol /\ vol # "none"
      BY <1>8, SeedReadsIs DEF RunKept
    <2>2. vol \in {run.args.seed, past.stale} /\ run.args.seed # "none"
      BY <2>1 DEF DiskInd, Disk
    <2>3. SeedIsSo' /\ run'.pc \notin Early
      BY <2>1, <2>2 DEF SeedIsSo, Early
    <2> QED
      BY <2>1, <2>2, <2>3, SameDiskKeeps
  <1>9. ASSUME NEW fault \in BOOLEAN, KitBegins(fault)
        PROVE  DiskInd'
    <2>1. /\ disk' = disk /\ run'.args = run.args /\ past'.work = past.work /\ past'.alone = past.alone
          /\ (run'.pc = "exit" /\ run'.kit # "ok") \/ (run'.pc = "pull" /\ vol' = "work")
          /\ past'.stale = past.stale
      BY <1>9, KitBeginsIs DEF RunKept, PastKept, PastRest
    <2>2. SeedIsSo' /\ run'.pc \notin Early
      BY <2>1 DEF SeedIsSo, Early
    <2> QED
      BY <2>1, <2>2, SameDiskKeeps
  <1>10. ASSUME NEW fault \in BOOLEAN, Pull(fault)
         PROVE  DiskInd'
    <2>1. /\ disk' = disk /\ run'.args = run.args /\ past'.work = past.work /\ past'.alone = past.alone
          /\ run.pc = "pull" /\ past'.stale = past.stale
          /\ \/ run'.pc = "exit" /\ run'.kit = "failed"
             \/ run'.pc = "format" /\ Required \subseteq run'.staged /\ ~Mounted.baked
      BY <1>10, PullIs DEF RunKept, PastKept, PastRest
    <2>2. vol = "work" /\ disk["work"].baked = past.work.baked
      BY <2>1 DEF DiskInd, Disk
    <2>3. Mounted = disk["work"]
      BY <2>2 DEF Mounted
    <2>4. SeedIsSo' /\ run'.pc \notin Early
      BY <2>1 DEF SeedIsSo, Early
    <2> QED
      BY <2>1, <2>2, <2>3, <2>4, SameDiskKeeps
  <1>11. CASE Verify
    <2>1. /\ disk' = disk /\ run'.args = run.args /\ past' = past /\ run.pc = "verify" /\ run'.pc = "exit"
          /\ run'.staged = run.staged
          /\ run'.kit = "ok" /\ vol = "kit" => \A label \in run.staged : Listed(label, disk["kit"].files)
      BY <1>11, VerifyIs DEF RunKept
    <2>2. /\ vol = "kit" /\ Required \subseteq run.staged
          /\ "kit" \notin past.lost => run.staged \subseteq disk["kit"].files
      BY <2>1 DEF DiskInd, Disk
    <2>3. run'.kit = "ok" => \A label \in run.staged \ {"AppleBridge", PrefsFile} : label \in disk["kit"].files
      BY <2>1, <2>2 DEF Listed
    <2>4. Missing' = run.staged \ disk["kit"].files
      BY <2>1, <2>2 DEF Missing
    <2>5. run'.kit = "ok" => KitIsWhole'
      BY <2>1, <2>2, <2>3, <2>4 DEF KitIsWhole
    <2>6. SeedIsSo' /\ run'.pc \notin Early
      BY <2>1 DEF SeedIsSo, Early
    <2> QED
      BY <2>1, <2>5, <2>6, SameDiskKeeps
  <1>12. ASSUME NEW fault \in BOOLEAN, SeedWrites(fault)
         PROVE  DiskInd'
    <2>1. /\ run'.args = run.args /\ past'.work = past.work /\ past'.alone = past.alone
          /\ run.pc = "seedwrite" /\ run'.pc = "kit" /\ vol' = "none" /\ past'.stale = past.stale
          /\ \/ disk' = disk /\ (vol = "none" \/ "seed" \in past'.lost)
             \/ vol \in Image /\ disk' = [disk EXCEPT ![vol].ip = "own"]
      BY <1>12, SeedWritesIs DEF RunKept, PastRest
    <2>2. vol \in {run.args.seed, past.stale} /\ vol # "none"
      BY <2>1 DEF DiskInd, Disk
    <2>3. \/ disk'["work"] = disk["work"]
          \/ "work" \in {run.args.seed, past.stale} /\ disk'["work"] = [disk["work"] EXCEPT !.ip = "own"]
      BY <1>1, <2>1, <2>2 DEF Image
    <2>9. SeedIsSo'
      <3> SUFFICES ASSUME "seed" \notin past'.lost, past.stale \in {"none", run.args.seed}
                   PROVE  disk'[run.args.seed].ip = "own"
        BY <2>1 DEF SeedIsSo
      <3>1. vol = run.args.seed /\ vol \in Image /\ disk' = [disk EXCEPT ![vol].ip = "own"]
        BY <2>1, <2>2
      <3>2. disk[vol] \in DiskState
        BY <1>1, <3>1
      <3> QED
        BY <1>1, <3>1, <3>2 DEF DiskState
    <2>4. disk'["work"].baked = disk["work"].baked /\ disk'["work"].strange = disk["work"].strange
      BY <1>1, <2>3 DEF DiskState
    <2>5. Disk'
      BY <2>1, <2>4 DEF DiskInd, Disk, InstallerMounts, Early
    <2>6. past.alone => disk'["work"] \in Theirs(past.work, run.args.seed, past.stale)
      <3> DEFINE w == past.work
      <3>1. past.alone => disk["work"] \in {w} \union (IF "work" \in {run.args.seed, past.stale} THEN {[w EXCEPT !.ip = "own"]} ELSE {})
        BY DiskParts DEF Theirs
      <3> HIDE DEF w
      <3>2. [[w EXCEPT !.ip = "own"] EXCEPT !.ip = "own"] = [w EXCEPT !.ip = "own"]
        OBVIOUS
      <3> QED
        BY <2>3, <3>1, <3>2 DEF Theirs, w
    <2>7. TheirDiskIsKept'
      BY <2>1, <2>4, <2>6, DiskParts DEF TheirDiskIsKept, Theirs
    <2>8. KitCanBePublished'
      BY <2>1 DEF KitCanBePublished
    <2> QED
      BY <2>5, <2>7, <2>8, <2>9 DEF DiskInd
  <1>13. ASSUME disk'["work"] = disk["work"], run'.args = run.args, past'.work = past.work, past'.alone = past.alone,
                past'.stale = past.stale, Disk', run'.pc # "kit", ~(run'.pc = "exit" /\ run'.kit = "ok")
         PROVE  DiskInd'
    <2>1. TheirDiskIsKept'
      BY <1>13 DEF DiskInd, TheirDiskIsKept
    <2>2. KitCanBePublished'
      BY <1>13 DEF KitCanBePublished
    <2>3. SeedIsSo'
      BY <1>13 DEF SeedIsSo
    <2> QED
      BY <1>13, <2>1, <2>2, <2>3 DEF DiskInd
  <1>14. ASSUME NEW fault \in BOOLEAN, Format(fault)
         PROVE  DiskInd'
    <2>1. /\ run'.args = run.args /\ past'.work = past.work /\ past'.alone = past.alone
          /\ run.pc = "format" /\ run'.staged = run.staged /\ past'.stale = past.stale
          /\ disk'["work"] = disk["work"] /\ disk'["kit"] = Blank
          /\ (run'.pc = "exit" /\ run'.kit = "failed") \/ (run'.pc = "place" /\ vol' = "kit")
      BY <1>14, FormatIs DEF RunKept, PastKept, PastRest
    <2>2. Disk'
      BY <2>1 DEF DiskInd, Disk, Early
    <2> QED
      BY <1>13, <2>1, <2>2
  <1>15. ASSUME NEW fault \in BOOLEAN, Place(fault)
         PROVE  DiskInd'
    <2>1. /\ run'.args = run.args /\ past'.work = past.work /\ past'.alone = past.alone
          /\ run.pc = "place" /\ run'.pc = "verify" /\ run'.staged = run.staged /\ vol' = vol
          /\ vol # "work" => disk'["work"] = disk["work"]
          /\ disk'["kit"].ip \in {disk["kit"].ip, KitAddress} /\ past'.stale = past.stale
          /\ vol = "kit" /\ "kit" \notin past'.lost => run.staged \subseteq disk'["kit"].files
      BY <1>15, PlaceIs DEF RunKept, PastRest
    <2>2. vol = "kit" /\ disk["kit"].ip = "none"
      BY <2>1 DEF DiskInd, Disk, Blank
    <2>3. run.args.kit = "release" => disk'["kit"].ip \in {"none", "router"}
      BY <2>1, <2>2 DEF KitAddress
    <2>4. Disk'
      BY <2>1, <2>2, <2>3 DEF DiskInd, Disk, Early
    <2> QED
      BY <1>13, <2>1, <2>2, <2>4
  <1> QED
    BY <1>2, <1>3, <1>4, <1>5, <1>6, <1>7, <1>8, <1>9, <1>10, <1>11, <1>12, <1>14, <1>15, <1>16
    DEF InstallNext

\* What others do to the machine while no image is the installer's, or to none.
LEMMA OutsideDiskKeeps ==
    ASSUME HostTypeOK, DiskInd, Disturbed, run' = run, ~(InstallerMounts' /\ DoctorMounts'), vol' = vol,
           disk'["work"].baked = disk["work"].baked, disk'["work"].strange = disk["work"].strange,
           disk'["kit"] = disk["kit"], run.pc # "idle" => disk' = disk
    PROVE  DiskInd'
  <1>1. past'.work = past.work /\ past'.alone = FALSE /\ past'.stale = past.stale /\ past'.lost = past.lost
    BY DisturbedIs
  <1>2. Disk'
    BY <1>1 DEF DiskInd, Disk, Early
  <1>3. TheirDiskIsKept'
    BY <1>1, DiskParts DEF TheirDiskIsKept
  <1>4. KitCanBePublished'
    BY <1>1 DEF DiskInd, KitCanBePublished, Missing
  <1>5. SeedIsSo'
    BY <1>1 DEF DiskInd, SeedIsSo
  <1> QED
    BY <1>2, <1>3, <1>4, <1>5 DEF DiskInd

\* Every step of the host keeps what is known of the images.
LEMMA DiskKept ==
    ASSUME ~Together, HostInd, DiskInd, [HostNext]_hostToolVars
    PROVE  DiskInd'
  <1>1. HostTypeOK /\ disk \in [Image -> DiskState]
    BY DEF HostInd, TypesInd, HostTypeOK, MachineTypeOK
  <1>2. HostNext => ~(InstallerMounts' /\ DoctorMounts')
    BY DEF HostNext
  <1>3. CASE HostNext /\ InstallStep
    BY <1>1, <1>2, <1>3, InstallDiskKeeps, UnquietIs DEF InstallStep
  <1>4. CASE HostNext /\ EmulatorStep
    <2>1. PICK e \in Emulator : (\E byStack, work \in BOOLEAN : Launch(e, byStack, work)) \/ Quit(e) \/ HelperDies(e)
      BY <1>4 DEF EmulatorStep, EmulatorNext
    <2>2. disk' = disk /\ vol' = vol
      BY <1>1, <2>1, LaunchIs, StopsIs
    <2> QED
      BY <1>1, <1>2, <1>4, <2>2, OutsideDiskKeeps DEF EmulatorStep
  <1>5. CASE HostNext /\ FollowStep
    BY <1>1, <1>2, <1>5, FollowIs, OutsideDiskKeeps DEF FollowStep
  <1>6. CASE HostNext /\ DoctorStep
    <2>1. /\ disk' = disk /\ run' = run /\ past' = past
          /\ vol' = vol \/ doctor'.pc = "mounted" \/ doctor.pc = "mounted"
      BY <1>1, <1>6, DoctorNextIs DEF DoctorStep, installVars
    <2>2. InstallerMounts => vol' = vol
      BY <1>2, <1>6, <2>1 DEF DiskInd, Disk, InstallerMounts, DoctorMounts
    <2>3. Disk'
      BY <1>2, <1>6, <2>1, <2>2 DEF DiskInd, Disk, InstallerMounts
    <2> QED
      BY <2>1, <2>3 DEF DiskInd, TheirDiskIsKept, SeedIsSo, KitCanBePublished, Missing
  <1>7. CASE HostNext /\ OnTable(TableNext)
    <2>1. doctor'.pc = doctor.pc /\ disk' = disk /\ vol' = vol /\ run' = run /\ past' = past
      BY <1>1, <1>7, UnquietIs DEF OnTable, hostVars, installVars
    <2> QED
      BY <2>1 DEF DiskInd, Disk, InstallerMounts, DoctorMounts, TheirDiskIsKept, SeedIsSo, KitCanBePublished, Missing
  <1>8. CASE UNCHANGED hostToolVars
    BY <1>8 DEF DiskInd, Disk, InstallerMounts, DoctorMounts, TheirDiskIsKept, SeedIsSo, KitCanBePublished, Missing,
                hostToolVars, machineVars, hostVars, installVars
  <1> QED
    BY <1>3, <1>4, <1>5, <1>6, <1>7, <1>8 DEF HostNext

\* Before the first run nothing was put on a disk.
LEMMA DiskBegins == HostInit => DiskInd
  <1> SUFFICES ASSUME HostInit
               PROVE  DiskInd
    OBVIOUS
  <1>1. PICK m \in Machines : disk = [work |-> m.work, kit |-> Blank] /\ ~m.work.strange
    BY HostAssumption DEF HostInit, MachineInit, HostAssumption
  <1>2. run.pc = "idle" /\ past.work = disk["work"]
    BY Zenon DEF HostInit, InstallInit, Resting, Fresh
  <1>3. Disk
    BY <1>2 DEF Disk, InstallerMounts, Early
  <1>4. TheirDiskIsKept /\ SeedIsSo /\ KitCanBePublished
    BY <1>1, <1>2 DEF TheirDiskIsKept, SeedIsSo, KitCanBePublished
  <1> QED
    BY <1>3, <1>4 DEF DiskInd

\* What belongs to others stays theirs: a bridged host, and the guest's disk, but for a seed whose
\* hmount gave no answer while that disk was still mounted from a run before.
THEOREM InstallerKeepsHolds == ~Together /\ HostSpec => []InstallerKeeps
  <1> SUFFICES ASSUME ~Together
               PROVE  HostSpec => []InstallerKeeps
    OBVIOUS
  <1>1. HostInit => HostInd /\ DiskInd
    BY HostKept, DiskBegins
  <1>2. HostInd /\ DiskInd /\ [HostNext]_hostToolVars => HostInd' /\ DiskInd'
    BY HostKept, DiskKept
  <1>3. HostInd /\ DiskInd => InstallerKeeps
    BY DEF HostInd, TypesInd, InstallInd, DiskInd, InstallerKeeps
  <1> QED
    BY <1>1, <1>2, <1>3, PTL DEF HostSpec

\* A refusal has written nothing of its plan.
LEMMA RefusalIs ==
    ASSUME HostInd
    PROVE  RefusalWritesNothing
  <1> SUFFICES ASSUME run.refused, past.alone
               PROVE  prefs = past.prefs /\ netmode = past.netmode /\ env = past.env /\ agent = past.agent
    BY DEF RefusalWritesNothing
  <1>1. /\ env = past.env /\ agent = past.agent
        /\ \A e \in Emulator : prefs[e] = past.prefs[e] /\ netmode[e] = past.netmode[e]
    BY DEF HostInd, InstallInd, UntouchedYet
  <1>2. /\ prefs \in [Emulator -> Prefs] /\ netmode \in [Emulator -> Backend \union {"none"}]
        /\ past.prefs \in [Emulator -> Prefs] /\ past.netmode \in [Emulator -> Backend \union {"none"}]
    BY DEF HostInd, TypesInd, HostTypeOK, MachineTypeOK, InstallTypeOK, PastState
  <1> QED
    BY <1>1, <1>2

\* What the installer reports is so, but for copies whose failure it cannot see and a seed whose
\* hmount gave no answer: its exit code, its refusal, its seed, its kit, and the end of a rerun.
THEOREM InstallerTellsHolds == ~Together /\ HostSpec => []InstallerTellsTrue
  <1> SUFFICES ASSUME ~Together
               PROVE  HostSpec => []InstallerTellsTrue
    OBVIOUS
  <1>1. HostInit => HostInd /\ DiskInd
    BY HostKept, DiskBegins
  <1>2. HostInd /\ DiskInd /\ [HostNext]_hostToolVars => HostInd' /\ DiskInd'
    BY HostKept, DiskKept
  <1>3. HostInd /\ DiskInd => InstallerTellsTrue
    <2>1. HostInd => RefusalWritesNothing
      BY RefusalIs
    <2> QED
      BY <2>1 DEF HostInd, InstallInd, Settled, ExitZeroIsTruth, Rerun, RerunFinishes, Late, DiskInd, InstallerTellsTrue
  <1> QED
    BY <1>1, <1>2, <1>3, PTL DEF HostSpec

-----------------------------------------------------------------------------
(* The control port *)

USE DEF Busy, Replies, NoDeadline, Pieces

-----------------------------------------------------------------------------
(* The pieces of the state *)

\* What a verb may do: its reply is not a refusal, and a success has acted.
Truthful(o) ==
    /\ o \in [acted : BOOLEAN, out : {"ok", "fail", "bare"}, link : BOOLEAN]
    /\ o.out = "ok" => o.acted = TRUE

\* An outcome that is a success only where it has acted is truthful.
LEMMA OutcomeTruthful ==
    ASSUME NEW acted \in BOOLEAN, NEW fell \in BOOLEAN, NEW out \in {"ok", "fail", "bare"},
           out = "ok" => acted = TRUE
    PROVE  Truthful(Outcome(acted, out, fell))
  BY DEF Truthful, Outcome

\* A verb behind the guard for its arguments is truthful.
LEMMA GuardedTruthful ==
    ASSUME NEW fell \in BOOLEAN, NEW o \in Guarded(fell)
    PROVE  Truthful(o)
  BY OutcomeTruthful DEF Guarded

\* So is the menu, whatever is in front of the host.
LEMMA HostMenuTruthful == \A o \in HostMenu : Truthful(o)
  <1> SUFFICES ASSUME NEW o \in HostMenu PROVE Truthful(o)
    OBVIOUS
  <1>1. PICK f \in FrontApp : o \in IF f.expected THEN Guarded(f.link)
                                    ELSE {Outcome(FALSE, "fail", f.link)}
    BY DEF HostMenu
  <1>2. f.link \in BOOLEAN
    BY DEF FrontApp
  <1>3. o \in Guarded(f.link) \/ o = Outcome(FALSE, "fail", f.link)
    BY <1>1
  <1> QED
    BY <1>2, <1>3, GuardedTruthful, OutcomeTruthful

\* So is an exchange with the Mac, whatever becomes of it.
LEMMA ExchangeTruthful ==
    ASSUME NEW missing \in {"fail", "bare"}, NEW o \in Exchange(missing)
    PROVE  Truthful(o)
  BY DEF Exchange, Truthful

\* Every verb is truthful.
LEMMA OutcomesTruthful ==
    ASSUME TypeOK, NEW v \in Verbs, NEW o \in Outcomes(v)
    PROVE  Truthful(o)
  <1>1. linked \in BOOLEAN
    BY DEF TypeOK
  <1>2. \A x \in MacStatus : Truthful(x)
    BY <1>1, OutcomeTruthful DEF MacStatus
  <1>3. Outcomes(v) \in {Guarded(linked), HostMenu, MacStatus, Exchange("fail"), Exchange("bare")}
    BY DEF Outcomes, Verbs, HostVerbs, ArgVerbs, ReadVerbs, DaemonVerbs, HostKey, HostShot, HostClick,
           HostHoldShot, Doctor, Screenshot, ReadFile, Log, WithArgs, ToDaemon
  <1> QED
    BY <1>1, <1>2, <1>3, GuardedTruthful, HostMenuTruthful, ExchangeTruthful

\* A client is added at the end of the backlog, or taken from its head.
LEMMA Joins ==
    ASSUME NEW q \in Seq(Client), NEW c \in Client
    PROVE  /\ Append(q, c) \in Seq(Client)
           /\ DOMAIN Append(q, c) = 1..(Len(q) + 1) /\ DOMAIN q = 1..Len(q)
           /\ \A i \in 1..(Len(q) + 1) :
                 Append(q, c)[i] = IF i = Len(q) + 1 THEN c ELSE q[i]
  OBVIOUS

\* The head of the backlog, and what is left behind it.
LEMMA Leaves ==
    ASSUME NEW q \in Seq(Client), q # <<>>
    PROVE  /\ Head(q) \in Client /\ Head(q) = q[1] /\ 1 \in DOMAIN q
           /\ Tail(q) \in Seq(Client)
           /\ DOMAIN Tail(q) = 1..(Len(q) - 1) /\ DOMAIN q = 1..Len(q)
           /\ \A i \in 1..(Len(q) - 1) : Tail(q)[i] = q[i + 1]
  OBVIOUS

-----------------------------------------------------------------------------
(* The steps *)

\* The invariant holds at first.
LEMMA PortInit == Init => PortInv
  <1> SUFFICES ASSUME Init PROVE PortInv
    OBVIOUS
  <1>1. server \in ServerState
    BY DEF Init, ServerState
  <1>2. client \in [Client -> ClientState]
    <2>1. \A q \in Requests : [at |-> "away", req |-> q, deadline |-> 0, sent |-> 0, gone |-> "no",
                               told |-> "nothing", whole |-> TRUE] \in ClientState
      BY DEF ClientState
    <2> QED
      BY <2>1 DEF Init
  <1>3. ran \in [Client -> {"no", "cut", "whole"}] /\ now \in Nat /\ linked \in BOOLEAN
    BY DEF Init
  <1>4. backlog \in Seq(Client)
    BY DEF Init
  <1>5. Seated
    BY DEF Init, Seated, AtTheLoop, InTheBacklog, Untouched
  <1>6. ReplyTrue /\ ToldTrue /\ GaveUpInTime
    BY DEF Init, ReplyTrue, ToldTrue, GaveUpInTime, GaveUpEarly
  <1> QED
    BY <1>1, <1>2, <1>3, <1>4, <1>5, <1>6 DEF PortInv, TypeOK

\* One client's record becomes another.
LEMMA OneClient ==
    ASSUME TypeOK, NEW c \in Client, NEW r \in ClientState, client' = [client EXCEPT ![c] = r]
    PROVE  /\ client' \in [Client -> ClientState]
           /\ client'[c] = r
           /\ \A d \in Client : d # c => client'[d] = client[d]
  BY DEF TypeOK

\* Who connects is at the end of the backlog, and nowhere else.
LEMMA ConnectKeeps ==
    ASSUME PortInv, NEW c \in Client, Connect(c)
    PROVE  PortInv'
  <1> DEFINE deadline == IF client[c].req.wait = 0 THEN NoDeadline ELSE now + client[c].req.wait
             gone == IF client[c].req.verb = "PROBE" THEN "queued" ELSE "no"
             r == [client[c] EXCEPT !.at = "queued", !.deadline = deadline, !.gone = gone]
  <1>0. TypeOK /\ Seated /\ ReplyTrue /\ ToldTrue /\ GaveUpInTime
    BY DEF PortInv
  <1>1. client[c] \in ClientState /\ client[c].req \in RequestType
    BY <1>0, PortAssumption DEF TypeOK, ClientState
  <1>2. deadline \in Nat /\ gone \in {"no", "queued"}
    BY <1>0, <1>1 DEF TypeOK, RequestType
  <1>4. client' = [client EXCEPT ![c] = r]
    BY DEF Connect
  <1> HIDE DEF deadline, gone
  <1>3. r \in ClientState
    BY <1>1, <1>2 DEF ClientState
  <1>5. /\ r.at = "queued" /\ r.told = client[c].told /\ r.sent = client[c].sent
        /\ r.gone \in {"no", "queued"}
    BY <1>1, <1>2 DEF ClientState
  <1>6. client[c].at = "away" /\ backlog' = Append(backlog, c) /\ UNCHANGED <<now, linked, server, ran>>
    BY DEF Connect
  <1> HIDE DEF r
  <1>7. /\ client' \in [Client -> ClientState]
        /\ client'[c] = r
        /\ \A d \in Client : d # c => client'[d] = client[d]
    BY <1>0, <1>3, <1>4, OneClient
  <1>8. TypeOK'
    <2>1. backlog' \in Seq(Client)
      BY <1>0, <1>6 DEF TypeOK
    <2> QED
      BY <1>0, <1>6, <1>7, <2>1 DEF TypeOK
  <1>9. AtTheLoop'
    <2>1. server.cur # c \/ server.cur = NoClient
      BY <1>0, <1>6 DEF Seated, AtTheLoop, Cur
    <2> QED
      BY <1>0, <1>6, <1>7, <2>1, PortAssumption DEF Seated, AtTheLoop, TypeOK, ServerState, Cur
  <1>10. InTheBacklog'
    <2>1. /\ DOMAIN backlog' = 1..(Len(backlog) + 1) /\ DOMAIN backlog = 1..Len(backlog)
          /\ \A i \in 1..(Len(backlog) + 1) :
                backlog'[i] = IF i = Len(backlog) + 1 THEN c ELSE backlog[i]
          /\ Len(backlog) \in Nat
      BY <1>0, <1>6, Joins DEF TypeOK
    <2>2. \A i \in DOMAIN backlog : backlog[i] # c /\ backlog[i] \in Client
      BY <1>0, <1>6 DEF Seated, InTheBacklog, TypeOK
    <2>3. \A i \in DOMAIN backlog' : client'[backlog'[i]].at = "queued"
      BY <1>0, <1>5, <1>7, <2>1, <2>2 DEF Seated, InTheBacklog
    <2>4. \A i, j \in DOMAIN backlog' : backlog'[i] = backlog'[j] => i = j
      BY <1>0, <2>1, <2>2 DEF Seated, InTheBacklog
    <2> QED
      BY <2>3, <2>4 DEF InTheBacklog
  <1>11. Untouched'
    BY <1>0, <1>5, <1>6, <1>7 DEF Seated, Untouched
  <1>12. ReplyTrue' /\ ToldTrue'
    BY <1>0, <1>5, <1>6, <1>7 DEF ReplyTrue, ToldTrue
  <1>13. GaveUpInTime'
    BY <1>0, <1>5, <1>6, <1>7 DEF Seated, Untouched, GaveUpInTime, GaveUpEarly
  <1> QED
    BY <1>8, <1>9, <1>10, <1>11, <1>12, <1>13 DEF PortInv, Seated

\* A client sends, gives up or is killed, at its place.
LEMMA ClientKeeps ==
    ASSUME PortInv, NEW c \in Client, NEW r \in ClientState,
           client' = [client EXCEPT ![c] = r],
           UNCHANGED <<now, linked, backlog, server, ran>>,
           r.at = client[c].at, r.told = client[c].told, r.sent >= client[c].sent,
           r.at # "away",
           /\ r.gone \in {"queued", "read"} /\ r.deadline # NoDeadline
              => now > r.deadline /\ r.at # "served" /\ ran[c] = "no"
    PROVE  PortInv'
  <1>0. TypeOK /\ Seated /\ ReplyTrue /\ ToldTrue /\ GaveUpInTime
    BY DEF PortInv
  <1>1. /\ client' \in [Client -> ClientState]
        /\ client'[c] = r
        /\ \A d \in Client : d # c => client'[d] = client[d]
    BY <1>0, OneClient
  <1>2. TypeOK'
    BY <1>0, <1>1 DEF TypeOK
  <1>3. AtTheLoop'
    <2>1. server.cur \in Client \union {NoClient} /\ server.got \in Nat
      BY <1>0 DEF TypeOK, ServerState
    <2>2. CASE server.cur = c
      <3>1. client[c].sent \in Nat /\ r.sent \in Nat
        BY <1>0 DEF TypeOK, ClientState
      <3> QED
        BY <1>0, <1>1, <2>1, <2>2, <3>1 DEF Seated, AtTheLoop, Cur
    <2>3. CASE server.cur # c
      BY <1>0, <1>1, <2>1, <2>3, PortAssumption DEF Seated, AtTheLoop, Cur
    <2> QED
      BY <2>2, <2>3
  <1>4. InTheBacklog'
    <2>1. \A i \in DOMAIN backlog : backlog[i] \in Client
      BY <1>0 DEF TypeOK
    <2> QED
      BY <1>0, <1>1, <2>1 DEF Seated, InTheBacklog
  <1>5. Untouched'
    BY <1>0, <1>1 DEF Seated, Untouched
  <1>6. ReplyTrue' /\ ToldTrue'
    BY <1>0, <1>1 DEF ReplyTrue, ToldTrue
  <1>7. GaveUpInTime'
    BY <1>0, <1>1 DEF GaveUpInTime, GaveUpEarly
  <1> QED
    BY <1>2, <1>3, <1>4, <1>5, <1>6, <1>7 DEF PortInv, Seated

\* Who sends has sent more, at the same place.
LEMMA SendPieceKeeps ==
    ASSUME PortInv, NEW c \in Client, SendPiece(c)
    PROVE  PortInv'
  <1> DEFINE r == [client[c] EXCEPT !.sent = @ + 1]
  <1>1. client[c] \in ClientState
    BY DEF PortInv, TypeOK
  <1>2. /\ Waiting(c) /\ client[c].sent < Pieces
        /\ client' = [client EXCEPT ![c] = r]
        /\ UNCHANGED <<now, linked, backlog, server, ran>>
    BY DEF SendPiece
  <1>3. client[c].sent \in 0..Pieces /\ client[c].sent + 1 \in 0..Pieces
    BY <1>1, <1>2 DEF ClientState
  <1>4. r \in ClientState
    BY <1>1, <1>3 DEF ClientState
  <1>5. /\ r.at = client[c].at /\ r.told = client[c].told /\ r.sent >= client[c].sent
        /\ r.at # "away" /\ r.gone = "no"
    BY <1>1, <1>2, <1>3 DEF ClientState, Waiting
  <1> HIDE DEF r
  <1> QED
    BY <1>2, <1>4, <1>5, ClientKeeps

\* Who gives up has passed its deadline or never had one.
LEMMA GiveUpKeeps ==
    ASSUME PortInv, NEW c \in Client, GiveUp(c) \/ Interrupt(c)
    PROVE  PortInv'
  <1> DEFINE r == [client[c] EXCEPT !.gone = client[c].at]
  <1>1. client[c] \in ClientState
    BY DEF PortInv, TypeOK
  <1>2. /\ Waiting(c)
        /\ client[c].deadline = NoDeadline \/ now > client[c].deadline
        /\ client' = [client EXCEPT ![c] = r]
        /\ UNCHANGED <<now, linked, backlog, server, ran>>
    BY DEF GiveUp, Interrupt
  <1>3. client[c].at \in {"queued", "read", "served"}
    BY <1>2 DEF Waiting
  <1>4. r \in ClientState
    BY <1>1, <1>3 DEF ClientState
  <1>5. /\ r.at = client[c].at /\ r.told = client[c].told /\ r.sent = client[c].sent
        /\ r.at # "away" /\ r.gone = r.at /\ r.deadline = client[c].deadline
        /\ client[c].sent \in Nat
    BY <1>1, <1>3 DEF ClientState
  <1>6. r.at \in {"queued", "read"} => ran[c] = "no"
    BY <1>5 DEF PortInv, Seated, Untouched
  <1> HIDE DEF r
  <1>7. r.sent >= client[c].sent
    BY <1>5
  <1>8. /\ r.gone \in {"queued", "read"} /\ r.deadline # NoDeadline
           => now > r.deadline /\ r.at # "served" /\ ran[c] = "no"
    BY <1>2, <1>5, <1>6
  <1> QED
    BY <1>2, <1>4, <1>5, <1>7, <1>8, ClientKeeps

\* The clock and the link.
LEMMA TickKeeps == PortInv /\ Tick => PortInv'
  <1> SUFFICES ASSUME PortInv, Tick PROVE PortInv'
    OBVIOUS
  <1>1. now' = now + 1 /\ now \in Nat /\ UNCHANGED <<linked, backlog, server, client, ran>>
    BY DEF Tick, PortInv, TypeOK
  <1>2. \A c \in Client : client[c].deadline \in Nat
    BY DEF PortInv, TypeOK, ClientState
  <1>3. TypeOK' /\ Seated' /\ ReplyTrue' /\ ToldTrue'
    BY <1>1 DEF PortInv, TypeOK, Seated, AtTheLoop, InTheBacklog, Untouched, Cur, ReplyTrue, ToldTrue
  <1>4. GaveUpInTime'
    BY <1>1, <1>2 DEF PortInv, GaveUpInTime, GaveUpEarly
  <1> QED
    BY <1>3, <1>4 DEF PortInv

\* The loop between two clients changes no client.
LEMMA IdleKeeps == PortInv /\ (PollLink \/ IdleTick) => PortInv'
  <1> SUFFICES ASSUME PortInv, PollLink \/ IdleTick PROVE PortInv'
    OBVIOUS
  <1>1. /\ linked' \in BOOLEAN /\ server.pc \in {"poll", "accept"}
        /\ \E pc \in {"poll", "accept"} : server' = [server EXCEPT !.pc = pc]
        /\ UNCHANGED <<now, backlog, client, ran>>
    BY DEF PollLink, IdleTick
  <1>2. /\ server' \in ServerState /\ server'.pc \in {"poll", "accept"}
        /\ server'.cur = server.cur
    BY <1>1 DEF PortInv, TypeOK, ServerState
  <1>3. TypeOK'
    BY <1>1, <1>2 DEF PortInv, TypeOK
  <1>4. Seated' /\ ReplyTrue'
    BY <1>1, <1>2 DEF PortInv, Seated, AtTheLoop, InTheBacklog, Untouched, ReplyTrue
  <1>5. ToldTrue' /\ GaveUpInTime'
    BY <1>1 DEF PortInv, ToldTrue, GaveUpInTime, GaveUpEarly
  <1> QED
    BY <1>3, <1>4, <1>5 DEF PortInv

\* Whoever is accepted is in the backlog no more.
LEMMA AcceptKeeps == PortInv /\ Accept => PortInv'
  <1> SUFFICES ASSUME PortInv, Accept PROVE PortInv'
    OBVIOUS
  <1> DEFINE c == Head(backlog)
             r == [client[c] EXCEPT !.at = "read"]
  <1>0. TypeOK /\ Seated /\ ReplyTrue /\ ToldTrue /\ GaveUpInTime
    BY DEF PortInv
  <1>1. /\ c \in Client /\ c = backlog[1] /\ 1 \in DOMAIN backlog
        /\ Tail(backlog) \in Seq(Client)
        /\ DOMAIN Tail(backlog) = 1..(Len(backlog) - 1) /\ DOMAIN backlog = 1..Len(backlog)
        /\ \A i \in 1..(Len(backlog) - 1) : Tail(backlog)[i] = backlog[i + 1]
        /\ Len(backlog) \in Nat
    BY <1>0, Leaves DEF Accept, TypeOK
  <1>2. client[c].at = "queued" /\ client[c] \in ClientState
    BY <1>0, <1>1 DEF Seated, InTheBacklog, TypeOK
  <1>3. r \in ClientState
    BY <1>2 DEF ClientState
  <1>4. /\ r.at = "read" /\ r.told = client[c].told /\ r.sent = client[c].sent
        /\ r.gone = client[c].gone /\ r.deadline = client[c].deadline /\ r.sent \in Nat
    BY <1>2 DEF ClientState
  <1>5. /\ client' = [client EXCEPT ![c] = r] /\ backlog' = Tail(backlog)
        /\ server' = [pc |-> "read", cur |-> c, got |-> 0, out |-> "none"]
        /\ UNCHANGED <<now, linked, ran>>
    BY DEF Accept
  <1> HIDE DEF c, r
  <1>6. /\ client' \in [Client -> ClientState]
        /\ client'[c] = r
        /\ \A d \in Client : d # c => client'[d] = client[d]
    BY <1>0, <1>1, <1>3, <1>5, OneClient
  <1>7. server' \in ServerState
    BY <1>1, <1>5 DEF ServerState
  <1>8. TypeOK'
    BY <1>0, <1>1, <1>5, <1>6, <1>7 DEF TypeOK
  <1>9. AtTheLoop'
    BY <1>1, <1>4, <1>5, <1>6, PortAssumption DEF AtTheLoop, Cur
  <1>10. InTheBacklog'
    <2>1. \A i \in DOMAIN backlog' : /\ i \in DOMAIN backlog /\ i + 1 \in DOMAIN backlog
                                     /\ backlog'[i] = backlog[i + 1] /\ i + 1 # 1 /\ i \in Nat
      BY <1>1, <1>5
    <2>2. \A i \in DOMAIN backlog : backlog[i] \in Client
      BY <1>0 DEF TypeOK
    <2>3. \A i \in DOMAIN backlog' : backlog'[i] # c
      BY <1>0, <1>1, <2>1 DEF Seated, InTheBacklog
    <2>4. \A i \in DOMAIN backlog' : client'[backlog'[i]].at = "queued"
      BY <1>0, <1>6, <2>1, <2>2, <2>3 DEF Seated, InTheBacklog
    <2>5. \A i, j \in DOMAIN backlog' : backlog'[i] = backlog'[j] => i = j
      BY <1>0, <2>1 DEF Seated, InTheBacklog
    <2> QED
      BY <2>4, <2>5 DEF InTheBacklog
  <1>11. ran[c] = "no" /\ client[c].told = "nothing"
    BY <1>0, <1>1, <1>2 DEF Seated, Untouched
  <1>12. Untouched' /\ ToldTrue'
    BY <1>0, <1>1, <1>4, <1>5, <1>6, <1>11 DEF Seated, Untouched, ToldTrue
  <1>13. ReplyTrue'
    BY <1>5 DEF ReplyTrue
  <1>14. GaveUpInTime'
    BY <1>0, <1>1, <1>4, <1>5, <1>6 DEF GaveUpInTime, GaveUpEarly
  <1> QED
    BY <1>8, <1>9, <1>10, <1>12, <1>13, <1>14 DEF PortInv, Seated

\* The request is read and judged, at an unchanged client.
LEMMA ReadingKeeps == PortInv /\ (ReadPiece \/ ReadEnds \/ Refuse) => PortInv'
  <1> SUFFICES ASSUME PortInv, ReadPiece \/ ReadEnds \/ Refuse PROVE PortInv'
    OBVIOUS
  <1>0. TypeOK /\ Seated /\ ReplyTrue /\ ToldTrue /\ GaveUpInTime
    BY DEF PortInv
  <1>1. UNCHANGED <<now, linked, backlog, client, ran>>
    BY DEF ReadPiece, ReadEnds, Refuse
  <1>2. server \in ServerState /\ server.pc \in {"read", "gate"}
    BY <1>0 DEF TypeOK, ReadPiece, ReadEnds, Refuse
  <1>3. /\ server.cur \in Client /\ Cur.at = "read" /\ server.got <= Cur.sent
        /\ Cur.sent \in 0..Pieces
    <2>1. server.cur \in Client
      BY <1>0, <1>2 DEF Seated, AtTheLoop, ServerState
    <2> QED
      BY <1>0, <1>2, <2>1 DEF Seated, AtTheLoop, Cur, TypeOK, ClientState
  <1>4. /\ server' \in ServerState /\ server'.cur = server.cur
        /\ \/ server'.pc \in {"read", "gate"} /\ server'.got <= Cur.sent
           \/ server'.pc = "reply" /\ server'.out = "refused"
    <2>1. CASE ReadPiece
      <3>1. server.got + 1 \in 0..Pieces /\ server.got + 1 <= Cur.sent
        BY <1>2, <1>3, <2>1 DEF ReadPiece, ServerState
      <3>2. \E pc \in {"read", "gate"} : server' = [server EXCEPT !.got = server.got + 1, !.pc = pc]
        BY <2>1 DEF ReadPiece
      <3> QED
        BY <1>2, <3>1, <3>2 DEF ServerState
    <2>2. CASE ReadEnds
      BY <1>2, <1>3, <2>2 DEF ReadEnds, ServerState
    <2>3. CASE Refuse
      BY <1>2, <1>3, <2>3 DEF Refuse, ServerState
    <2> QED
      BY <2>1, <2>2, <2>3
  <1>5. TypeOK'
    BY <1>0, <1>1, <1>4 DEF TypeOK
  <1>6. Seated'
    <2>1. Cur' = Cur
      BY <1>1, <1>4 DEF Cur
    <2>2. AtTheLoop'
      BY <1>3, <1>4, <2>1, PortAssumption DEF AtTheLoop
    <2> QED
      BY <1>0, <1>1, <2>2 DEF Seated, InTheBacklog, Untouched
  <1>7. ReplyTrue'
    BY <1>0, <1>1, <1>3, <1>4 DEF Seated, Untouched, ReplyTrue, Cur
  <1>8. ToldTrue' /\ GaveUpInTime'
    BY <1>0, <1>1 DEF ToldTrue, GaveUpInTime, GaveUpEarly
  <1> QED
    BY <1>5, <1>6, <1>7, <1>8 DEF PortInv

\* A request that is served was not given up in time.
LEMMA DispatchKeeps == PortInv /\ Dispatch => PortInv'
  <1> SUFFICES ASSUME PortInv, Dispatch PROVE PortInv'
    OBVIOUS
  <1> DEFINE c == server.cur
             r == [client[c] EXCEPT !.at = "served"]
  <1>0. TypeOK /\ Seated /\ ReplyTrue /\ ToldTrue /\ GaveUpInTime
    BY DEF PortInv
  <1>1. server \in ServerState /\ server.pc = "gate" /\ server.got > 0 /\ ~Expired
    BY <1>0 DEF TypeOK, Dispatch, Refused
  <1>2. c \in Client /\ client[c] \in ClientState
    BY <1>0, <1>1 DEF Seated, AtTheLoop, TypeOK, ServerState
  <1>3. client[c].at = "read" /\ client[c].sent > 0 /\ client[c].sent \in Nat
    BY <1>0, <1>1, <1>2 DEF Seated, AtTheLoop, Cur, ClientState, ServerState
  <1>4. ~GaveUpEarly(c)
    BY <1>0, <1>1, <1>2, <1>3 DEF GaveUpInTime, GaveUpEarly, Expired, Cur, ClientState
  <1>5. r \in ClientState
    BY <1>2 DEF ClientState
  <1>6. /\ r.at = "served" /\ r.told = client[c].told /\ r.gone = client[c].gone
        /\ r.deadline = client[c].deadline
    BY <1>2 DEF ClientState
  <1>7. /\ client' = [client EXCEPT ![c] = r] /\ server' = [server EXCEPT !.pc = "serve"]
        /\ UNCHANGED <<now, linked, backlog, ran>>
    BY DEF Dispatch
  <1>8. server' \in ServerState /\ server'.pc = "serve" /\ server'.cur = c
    BY <1>1, <1>7 DEF ServerState
  <1> HIDE DEF c, r
  <1>9. /\ client' \in [Client -> ClientState]
        /\ client'[c] = r
        /\ \A d \in Client : d # c => client'[d] = client[d]
    BY <1>0, <1>2, <1>5, <1>7, OneClient
  <1>10. TypeOK'
    BY <1>0, <1>7, <1>8, <1>9 DEF TypeOK
  <1>11. AtTheLoop' /\ ReplyTrue'
    BY <1>2, <1>6, <1>8, <1>9, PortAssumption DEF AtTheLoop, ReplyTrue, Cur
  <1>12. InTheBacklog'
    <2>1. \A i \in DOMAIN backlog : backlog[i] \in Client /\ backlog[i] # c
      BY <1>0, <1>3 DEF TypeOK, Seated, InTheBacklog
    <2> QED
      BY <1>0, <1>7, <1>9, <2>1 DEF Seated, InTheBacklog
  <1>13. Untouched' /\ ToldTrue'
    BY <1>0, <1>2, <1>3, <1>6, <1>7, <1>9 DEF Seated, Untouched, ToldTrue
  <1>14. GaveUpInTime'
    BY <1>0, <1>2, <1>4, <1>6, <1>7, <1>9 DEF GaveUpInTime, GaveUpEarly
  <1> QED
    BY <1>10, <1>11, <1>12, <1>13, <1>14 DEF PortInv, Seated

\* What is served acts or not.
LEMMA ServeKeeps == PortInv /\ Serve => PortInv'
  <1> SUFFICES ASSUME PortInv, Serve PROVE PortInv'
    OBVIOUS
  <1> DEFINE c == server.cur
  <1>0. TypeOK /\ Seated /\ ReplyTrue /\ ToldTrue /\ GaveUpInTime
    BY DEF PortInv
  <1>1. server \in ServerState /\ server.pc = "serve"
    BY <1>0 DEF TypeOK, Serve
  <1>2. c \in Client /\ client[c] \in ClientState
    BY <1>0, <1>1 DEF Seated, AtTheLoop, TypeOK, ServerState
  <1>3. client[c].at = "served" /\ Cur = client[c]
    BY <1>0, <1>1 DEF Seated, AtTheLoop, Cur
  <1>4. client[c].told = "nothing" /\ ~GaveUpEarly(c)
    BY <1>0, <1>2, <1>3 DEF Seated, Untouched, GaveUpInTime
  <1>5. client[c].req.verb \in Verbs
    BY <1>2, PortAssumption DEF ClientState, RequestType
  <1>6. PICK o \in Outcomes(Cur.req.verb) :
          /\ linked' = o.link
          /\ ran' = [ran EXCEPT ![c] = IF ~o.acted THEN @ ELSE IF server.got = Pieces THEN "whole" ELSE "cut"]
          /\ server' = [server EXCEPT !.pc = "reply", !.out = o.out]
    BY DEF Serve
  <1>7. Truthful(o)
    BY <1>0, <1>3, <1>5, <1>6, OutcomesTruthful
  <1>8. UNCHANGED <<now, backlog, client>>
    BY DEF Serve
  <1>9. o.out \in {"ok", "fail", "bare"} /\ o.link \in BOOLEAN
    BY <1>7 DEF Truthful
  <1>10. /\ server' \in ServerState /\ server'.pc = "reply" /\ server'.cur = c
         /\ server'.out = o.out
    BY <1>1, <1>6, <1>9 DEF ServerState
  <1> HIDE DEF c
  <1>11. /\ ran' \in [Client -> {"no", "cut", "whole"}]
         /\ \A d \in Client : d # c => ran'[d] = ran[d]
         /\ o.acted = TRUE => ran'[c] # "no"
    BY <1>0, <1>2, <1>6 DEF TypeOK
  <1>12. TypeOK'
    BY <1>0, <1>6, <1>8, <1>9, <1>10, <1>11 DEF TypeOK
  <1>13. AtTheLoop'
    BY <1>2, <1>3, <1>8, <1>10, PortAssumption DEF AtTheLoop, Cur
  <1>14. InTheBacklog'
    BY <1>0, <1>8 DEF Seated, InTheBacklog
  <1>15. Untouched'
    BY <1>0, <1>3, <1>8, <1>11 DEF Seated, Untouched
  <1>16. ReplyTrue'
    <2>1. o.out # "refused" /\ (o.out = "ok" => o.acted = TRUE)
      BY <1>7, <1>9 DEF Truthful
    <2> QED
      BY <1>10, <1>11, <2>1 DEF ReplyTrue
  <1>17. ToldTrue'
    BY <1>0, <1>4, <1>8, <1>11 DEF ToldTrue
  <1>18. GaveUpInTime'
    BY <1>0, <1>4, <1>8, <1>11 DEF GaveUpInTime, GaveUpEarly
  <1> QED
    BY <1>12, <1>13, <1>14, <1>15, <1>16, <1>17, <1>18 DEF PortInv, Seated

\* The connection is closed, with a true word or none.
LEMMA FinishKeeps ==
    ASSUME PortInv, server.pc \in {"gate", "reply"},
           NEW told \in {"ok", "failed", "refused"}, NEW whole \in BOOLEAN,
           Finish(told, whole), UNCHANGED <<now, linked, backlog, ran>>,
           told = "ok" => ran[server.cur] # "no",
           told = "refused" => ran[server.cur] = "no"
    PROVE  PortInv'
  <1> DEFINE c == server.cur
             t == IF client[c].gone = "no" THEN told ELSE client[c].told
             r == [client[c] EXCEPT !.at = "done", !.told = t, !.whole = whole]
  <1>0. TypeOK /\ Seated /\ ReplyTrue /\ ToldTrue /\ GaveUpInTime
    BY DEF PortInv
  <1>1. server \in ServerState
    BY <1>0 DEF TypeOK
  <1>2. c \in Client /\ client[c] \in ClientState
    BY <1>0, <1>1 DEF Seated, AtTheLoop, TypeOK, ServerState
  <1>3. client[c].at \in {"read", "served"}
    BY <1>0 DEF Seated, AtTheLoop, Cur
  <1>4. client[c].told = "nothing" /\ t \in {told, "nothing"}
    BY <1>0, <1>2, <1>3 DEF Seated, Untouched
  <1>5. /\ client' = [client EXCEPT ![c] = r]
        /\ server' = [server EXCEPT !.pc = "poll", !.cur = NoClient]
    BY DEF Finish, Cur
  <1>6. /\ server' \in ServerState /\ server'.pc = "poll" /\ server'.cur = NoClient
    BY <1>1, <1>5 DEF ServerState
  <1>7. told = "ok" => ran[c] # "no"
    OBVIOUS
  <1>8. told = "refused" => ran[c] = "no"
    OBVIOUS
  <1> HIDE DEF t, c
  <1>9. r \in ClientState
    BY <1>2, <1>4 DEF ClientState
  <1>10. /\ r.at = "done" /\ r.told = t /\ r.gone = client[c].gone
         /\ r.deadline = client[c].deadline /\ r.sent = client[c].sent
    BY <1>2 DEF ClientState
  <1> HIDE DEF r
  <1>11. /\ client' \in [Client -> ClientState]
         /\ client'[c] = r
         /\ \A d \in Client : d # c => client'[d] = client[d]
    BY <1>0, <1>2, <1>5, <1>9, OneClient
  <1>12. TypeOK'
    BY <1>0, <1>6, <1>11 DEF TypeOK
  <1>13. AtTheLoop' /\ ReplyTrue'
    BY <1>6 DEF AtTheLoop, ReplyTrue
  <1>14. InTheBacklog'
    <2>1. \A i \in DOMAIN backlog : backlog[i] \in Client /\ backlog[i] # c
      BY <1>0, <1>3 DEF TypeOK, Seated, InTheBacklog
    <2> QED
      BY <1>0, <1>11, <2>1 DEF Seated, InTheBacklog
  <1>15. Untouched'
    BY <1>0, <1>2, <1>10, <1>11 DEF Seated, Untouched
  <1>16. ToldTrue'
    BY <1>0, <1>2, <1>4, <1>7, <1>8, <1>10, <1>11 DEF ToldTrue
  <1>17. GaveUpInTime'
    BY <1>0, <1>2, <1>10, <1>11 DEF GaveUpInTime, GaveUpEarly
  <1> QED
    BY <1>12, <1>13, <1>14, <1>15, <1>16, <1>17 DEF PortInv, Seated

\* Who is answered or closed is done, and told what was done.
LEMMA ClosingKeeps == PortInv /\ (CloseEmpty \/ Reply) => PortInv'
  <1> SUFFICES ASSUME PortInv, CloseEmpty \/ Reply PROVE PortInv'
    OBVIOUS
  <1>1. CASE CloseEmpty
    BY <1>1, FinishKeeps DEF CloseEmpty
  <1>2. CASE Reply
    <2>1. PICK whole \in BOOLEAN : Finish(Told(server.out), whole)
      BY <1>2 DEF Reply
    <2>2. /\ Told(server.out) \in {"ok", "failed", "refused"}
          /\ Told(server.out) = "ok" => server.out = "ok"
          /\ Told(server.out) = "refused" => server.out = "refused"
      BY DEF Told
    <2>3. server.pc = "reply" /\ UNCHANGED <<now, linked, backlog, ran>>
      BY <1>2 DEF Reply
    <2>4. Told(server.out) = "ok" => ran[server.cur] # "no"
      BY <2>2, <2>3 DEF PortInv, ReplyTrue
    <2>5. Told(server.out) = "refused" => ran[server.cur] = "no"
      BY <2>2, <2>3 DEF PortInv, ReplyTrue
    <2> QED
      BY <2>1, <2>2, <2>3, <2>4, <2>5, FinishKeeps
  <1> QED
    BY <1>1, <1>2

-----------------------------------------------------------------------------
(* The theorems *)

\* No step of the loop, of a client or of the clock breaks the invariant.
LEMMA PortStep == PortInv /\ [Next]_vars => PortInv'
  <1> SUFFICES ASSUME PortInv, [Next]_vars PROVE PortInv'
    OBVIOUS
  <1>1. CASE Loop
    BY <1>1, IdleKeeps, AcceptKeeps, ReadingKeeps, DispatchKeeps, ServeKeeps, ClosingKeeps DEF Loop
  <1>2. CASE Tick
    BY <1>2, TickKeeps
  <1>3. CASE \E c \in Client : Connect(c) \/ SendPiece(c) \/ GiveUp(c) \/ Interrupt(c)
    BY <1>3, ConnectKeeps, SendPieceKeeps, GiveUpKeeps
  <1>4. CASE UNCHANGED vars
    BY <1>4 DEF vars, PortInv, TypeOK, Seated, AtTheLoop, InTheBacklog, Untouched, Cur,
                ReplyTrue, ToldTrue, GaveUpInTime, GaveUpEarly
  <1> QED
    BY <1>1, <1>2, <1>3, <1>4 DEF Next

\* Every client is where the loop has it; what one is told of its request is so, a success was
\* executed, a refusal never.
THEOREM PortInvariant == Spec => []PortInv
  <1> QED
    BY PortInit, PortStep, PTL DEF Spec

\* However many clients connect, send, stall and leave, and whatever the verbs do: the request of
\* a client that sent its deadline and gave up before it was served is never executed.
THEOREM LateIsNeverRun == Spec => []NotRunAfterGiveUp
  <1>1. PortInv => NotRunAfterGiveUp
    BY DEF PortInv, GaveUpInTime, GaveUpEarly, NotRunAfterGiveUp
  <1> QED
    BY <1>1, PortInvariant, PTL
=============================================================================
