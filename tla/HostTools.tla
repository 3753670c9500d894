----------------------------- MODULE HostTools ------------------------------
(***************************************************************************)
(* The installer, the doctor, the emulators and the person at one machine. *)
(***************************************************************************)
EXTENDS HostInstall, BridgeDoctor

CONSTANT Together   \* whether the installer and the doctor use hfsutils at the same time

Machine ==
    [prefs : [Emulator -> Prefs], netmode : [Emulator -> Backend \union {"none"}], newest : Emulator,
     up : [Emulator -> Running], bundle : Bundle, env : EnvState, agent : AgentState, work : DiskState,
     supply : Supply, table : SUBSET Row, conf : [Guest -> Conf]]

\* Its agents were made of its table, and its disk has its owner's files only.
ASSUME HostAssumption ==
    /\ Together \in BOOLEAN
    /\ \A m \in Machines : m \in Machine /\ Valid(m.table) /\ ~m.work.strange

hostToolVars == <<machineVars, installVars, doctor, tableVars>>

HostTypeOK == MachineTypeOK /\ InstallTypeOK /\ DoctorTypeOK /\ TableTypeOK

HostInit ==
    /\ \E m \in Machines : MachineInit(m) /\ TableInit(m)
    /\ InstallInit /\ DoctorInit

InstallerMounts == run.pc \in {"seedread", "seedwrite", "pull", "place", "verify"}
DoctorMounts    == doctor.pc = "mounted"

InstallStep  == InstallNext /\ Unquiet /\ UNCHANGED tableVars
EmulatorStep == EmulatorNext /\ Disturbed /\ UNCHANGED run /\ Unquiet /\ UNCHANGED tableVars
\* Advice is followed before the doctor is asked again.
DoctorStep   == (supply.advice > 0 => ~doctor.done \/ ShortReason = {}) /\ DoctorNext
                /\ UNCHANGED <<installVars, tableVars>>
FollowStep   == FollowAdvice /\ run.pc = "idle" /\ Disturbed /\ UNCHANGED run /\ UNCHANGED tableVars
OnTable(A)   == A /\ UNCHANGED <<hostVars, installVars>> /\ Unquiet

HostNext ==
    /\ InstallStep \/ EmulatorStep \/ DoctorStep \/ FollowStep \/ OnTable(TableNext)
    /\ Together \/ ~(InstallerMounts' /\ DoctorMounts')

HostSpec ==
    /\ HostInit /\ [][HostNext]_hostToolVars
    /\ WF_hostToolVars(DoctorStep) /\ WF_hostToolVars(FollowStep)

-----------------------------------------------------------------------------
(* Properties *)

OneLine(p) == p # NoFile /\ Len(p) <= 1

\* A host whose emulator can be found and is set up for etherhelper, which alone carries
\* AppleTalk, is not converted unless that was asked for with --force-slirp.
BridgedHostIsKept ==
    LET e == bundle.app IN
    (/\ past.alone /\ ~run.args.force
     /\ bundle.helper /\ bundle.place = "known" /\ LastEther(past.prefs[e]) = "bridge")
    => prefs[e] = past.prefs[e] /\ netmode[e] = past.netmode[e]

\* While an emulator runs that was up when the run began, no step of the installer changes the
\* prefs it has read, if nothing else does and they name one backend, nor reads or writes a disk
\* image that it holds open.
RunningGuestIsLeftAlone ==
    [][run' # run =>
        \A e \in past.through :
            /\ past.alone /\ FirstEther(prefs[e]) = LastEther(prefs[e]) => prefs'[e] = prefs[e]
            /\ up[e].work => disk'["work"] = disk["work"] /\ run'.staged \subseteq run.staged]_hostToolVars

\* After a run that ends with exit code 0 the backend and its record are slirp, local.env names
\* no address, and the agent that was asked for serves both ports.
ExitZeroIsTruth ==
    past.settled =>
        /\ LastEther(prefs[run.choice]) = "slirp" /\ netmode[run.choice] = "slirp"
        /\ env.present /\ env.addr = "none"
        /\ run.args.agent => Serving

\* From then on every start of the emulator, by start_stack.sh or by hand, is on slirp.
ConvertedForGood ==
    [][\A e \in Emulator :
        past.exit = 0 /\ e = run.choice /\ OneLine(prefs[e]) /\ up[e] = Off /\ up'[e] # Off
        => up'[e].ether = "slirp"]_hostToolVars

\* Whatever earlier runs that failed or were killed have left behind: a run in which nothing
\* fails finishes the installation.
RerunFinishes ==
    (/\ run.pc = "exit" /\ past.clean /\ run.seen = {} /\ (run.args.force \/ ~bundle.helper)
     /\ OneLine(past.prefs[run.choice]) /\ agent.state # "disabled")
    => run.good /\ ~run.refused

\* What a kit was to hold and does not.
Missing == (Required \union run.staged) \ disk["kit"].files

\* A kit reported as good holds every file it was made of, the two that are required among them,
\* comes from binaries without an address of their own, and names no host when it is for release.
\* The exception: the listing is searched for the first word of a label, so that of a copy that
\* failed only the driver and the installer are missed, not the daemon or the prefs.
KitCanBePublished ==
    run.pc = "exit" /\ run.kit = "ok" =>
        /\ Missing = {} \/ ("kit" \in past.lost /\ Missing \subseteq {"AppleBridge", PrefsFile})
        /\ ~past.work.baked
        /\ run.args.kit = "release" => disk["kit"].ip \in {"none", "router"}

\* An image whose seeding is reported as done names this host.  Not so after a copy back that
\* failed, nor after an hmount without an answer that left another image mounted: neither is
\* looked for.
SeedIsSo ==
    (/\ run.pc = "kit" /\ run.seed = "ok"
     /\ "seed" \notin past.lost /\ past.stale \in {"none", run.args.seed})
    => disk[run.args.seed].ip = "own"

\* A run that refuses writes nothing of what its plan is about: prefs, record, local.env and agent
\* are as they were.  Disk images are not among them: they are seeded and made after a refusal,
\* too.
RefusalWritesNothing ==
    run.refused /\ past.alone =>
        prefs = past.prefs /\ netmode = past.netmode /\ env = past.env /\ agent = past.agent

\* No file is put on the guest's own disk, and its prefs are changed only by a run that was
\* asked to seed them; or to seed another image, when the hmount of that one gave no answer
\* while a run that was killed had left the guest's disk mounted.
TheirDiskIsKept ==
    /\ ~disk["work"].strange
    /\ past.alone => disk["work"] \in {past.work} \union
            (IF "work" \in {run.args.seed, past.stale} THEN {[past.work EXCEPT !.ip = "own"]} ELSE {})

RowFinding ==
    {"guest_table_invalid", "guest_agent_down", "guest_ports", "guest_name_refused", "guest_unverified"}

\* The doctor has nothing to say against an installation that has just succeeded, if it looks
\* at the same prefs; the address that the guest dials and the table are not part of it.
DoctorAgrees ==
    (/\ past.settled /\ run.args.agent /\ doctor.done /\ doctor.quiet
     /\ Resolved(UpNow, "none") = run.choice)
    => doctor.report \subseteq {"guest_ip_stale"} \union RowFinding

\* An emulator on the bridge has lost its helper.
HelperFault == \E e \in UpNow : up[e].ether = "bridge" /\ ~up[e].helper

\* The doctor reads the prefs of one emulator and asks for a helper of any: it does not see what an
\* emulator has lost beside another one, or when the prefs were rewritten since it was launched.
Masked == (\E e \in UpNow : up[e].helper) \/ LastEther(prefs[Resolved(UpNow, "none")]) # "bridge"

\* What keeps a guest from its host: no server, the address of another place, a dead bridge, a
\* guest that is off and will dial an address nobody has.
Broken ==
    \/ ~Serving
    \/ env.addr \in {"gone", "dup", "other"}
    \/ HelperFault /\ ~Masked
    \/ UpNow = {} /\ PrefsFile \in disk["work"].files /\ disk["work"].ip = "gone"

\* When one of these faults of the host is there, and nothing changes while it looks, the doctor
\* gives a reason and does not call the host healthy, whichever other faults come with it.  The
\* exception is a dead bridge that is masked.
NoFaultIsHidden == doctor.done /\ doctor.quiet /\ Broken => ShortReason # {}

Advised == supply.advice > 0 /\ supply.runs = 0 /\ supply.launches = 0 /\ supply.faults = 0

\* A person who follows the first advice of each report comes to a report without errors: no
\* advice undoes another.
AdviceConverges == Advised => <>(doctor.done /\ Verdict # "error")

\* A tool call for a guest is executed on the guest that has told this name, or on one that
\* tells none, once the agents are those of the table and as long as the table stays.
CallsMeetTheirGuest == call.pc = "done" /\ call.sure => call.said \in {call.asked, ""}

Served == \A r \in table : link[r.port] # NoLink /\ link[r.port].said = r.name

Settable ==
    /\ job.fixed
    /\ \A g \in Guest : conf[g].name # ""
    /\ \A r \in table : \E g \in Guest : conf[g] = [name |-> r.name, port |-> r.port]
    /\ \A p \in Port : link[p] # NoLink => conf[link[p].guest] = [name |-> link[p].said, port |-> p]

\* When the agents are those of the table, each row has a guest with its name and port in the
\* prefs, and neither launchd nor a guest that dials can change anything more, every row is
\* served: nothing that ran before, and nobody else who dials, keeps a guest from its place.
RowsAreServed ==
    Settable /\ ~Served => ENABLED Works \/ ENABLED (Dials /\ link' # link)

\* A look at rows that are all served by their guests finds nothing wrong with them, whatever
\* the logs hold from earlier.
ServedRowsAreHealthy ==
    doctor.done /\ doctor.quiet /\ job.fixed /\ Served
    => doctor.report \cap RowFinding = {}

\* What belongs to others stays theirs: a bridged host, and the guest's disk.
InstallerKeeps == HostTypeOK /\ BridgedHostIsKept /\ TheirDiskIsKept

\* What the installer reports is so, with the exceptions named above: its exit code, its refusal,
\* its seed, its kit, and the end of a rerun.
InstallerTellsTrue ==
    ExitZeroIsTruth /\ RefusalWritesNothing /\ SeedIsSo /\ KitCanBePublished /\ RerunFinishes

\* The doctor gives no false alarm after a success, nor about guests that are served.
NoFalseAlarm == DoctorAgrees /\ ServedRowsAreHealthy

=============================================================================
