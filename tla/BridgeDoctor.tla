---------------------------- MODULE BridgeDoctor ----------------------------
(***************************************************************************)
(* host/bridge_doctor.py: looks at the processes, the agent and the ports, *)
(* the files, and, while no emulator runs, at the prefs on the guest's     *)
(* disk image, one after the other, and reports what is wrong and what to  *)
(* do.  A host server run from the repository calls it whenever a command  *)
(* comes while no guest is connected.  A person may follow its advice.     *)
(***************************************************************************)
EXTENDS GuestTable

VARIABLE doctor     \* the doctor, what it has seen, and what it reported last

Level == {"error", "warn", "info"}

\* The findings, in the order of the report.
Findings ==
    <<<<"launchd_disabled", "error">>, <<"host_server_not_running", "error">>,
      <<"launchd_absent", "error">>, <<"control_port_closed", "warn">>,
      <<"host_ip_missing", "error">>, <<"host_ip_duplicate", "error">>,
      <<"host_ip_wrong_interface", "error">>, <<"ether_slirp", "warn">>, <<"ether_drift", "warn">>,
      <<"etherhelper_dead", "error">>, <<"local_env_has_host_ip", "error">>,
      <<"emulator_app_stale", "warn">>, <<"deploy_missing", "error">>, <<"guest_ip_stale", "error">>,
      <<"guest_table_invalid", "warn">>, <<"guest_agent_down", "error">>, <<"guest_ports", "error">>,
      <<"guest_name_refused", "error">>, <<"guest_unverified", "warn">>>>

Finding == {Findings[i][1] : i \in DOMAIN Findings}

Look ==
    [procs : SUBSET Emulator, helper : BOOLEAN, choice : Emulator,
     agent : {"absent", "hand", "installed", "loaded", "disabled"}, serving : BOOLEAN,
     ether : Backend \union {"none"}, intended : Backend \union {"none"},
     env : EnvState, deployed : BOOLEAN, guests : SUBSET Finding, ip : Address]

\* quiet: nothing has changed the machine since the first look of this examination.
DoctorState ==
    [pc : {"idle", "services", "files", "image", "mounted"}, look : Look, report : SUBSET Finding,
     done : BOOLEAN, quiet : BOOLEAN]

DoctorTypeOK == doctor \in DoctorState

Blind ==
    [procs |-> {}, helper |-> FALSE, choice |-> "basilisk", agent |-> "absent", serving |-> FALSE,
     ether |-> "none", intended |-> "none", env |-> [present |-> FALSE, addr |-> "none", app |-> "none"],
     deployed |-> FALSE, guests |-> {}, ip |-> "none"]

DoctorInit ==
    doctor = [pc |-> "idle", look |-> Blind, report |-> {}, done |-> FALSE, quiet |-> FALSE]

-----------------------------------------------------------------------------
(* collect *)

LookAtProcesses ==
    /\ doctor.pc = "idle" /\ Spends("doctors")
    /\ doctor' = [pc |-> "services", report |-> {}, done |-> FALSE, quiet |-> TRUE,
                  look |-> [Blind EXCEPT !.procs = UpNow, !.helper = \E e \in Emulator : up[e].helper,
                                         !.choice = Resolved(UpNow, "none")]]
    /\ UNCHANGED hostVars

LookAtServices ==
    /\ doctor.pc = "services"
    /\ doctor' = [doctor EXCEPT !.pc = "files", !.look.agent = agent.state, !.look.serving = Serving]
    /\ UNCHANGED machineVars

LookAtFiles ==
    /\ doctor.pc = "files"
    /\ doctor' = [doctor EXCEPT !.pc = "image",
                                !.look.ether = LastEther(prefs[doctor.look.choice]),
                                !.look.intended = netmode[doctor.look.choice],
                                !.look.env = env, !.look.deployed = agent.deployed,
                                !.look.guests = GuestFindings]
    /\ UNCHANGED machineVars

AddressOnSlirp(l) ==
    /\ l.env.addr # "none"
    /\ (IF l.intended # "none" THEN l.intended ELSE l.ether) = "slirp"

\* Mutant: an agent that is not loaded is taken for one that was never installed.
Server_NoAgent(key, l) ==
    CASE key = "launchd_disabled" -> l.agent = "disabled"
      [] key = "host_server_not_running" -> l.agent \in {"absent", "hand"} /\ ~l.serving
      [] key = "launchd_absent" -> FALSE
      [] OTHER -> l.agent = "loaded" /\ ~l.serving
Server(key, l) ==
    CASE key = "launchd_disabled" -> l.agent = "disabled"
      [] key = "host_server_not_running" -> l.agent \in {"absent", "hand"} /\ ~l.serving
      [] key = "launchd_absent" -> l.agent = "installed"
      [] OTHER -> l.agent = "loaded" /\ ~l.serving

\* Mutant: a server that binds every address has none of its own either.
HostIp_Wildcard(key, l) ==
    CASE key = "host_ip_missing" -> l.env.addr \in {"none", "gone", "router"}
      [] key = "host_ip_duplicate" -> l.env.addr = "dup"
      [] OTHER -> l.env.addr = "other"

\* An address that two interfaces have is not looked at any further.
HostIp(key, l) ==
    CASE key = "host_ip_missing" -> l.env.addr \in {"gone", "router"}
      [] key = "host_ip_duplicate" -> l.env.addr = "dup"
      [] OTHER -> l.env.addr = "other"

\* Mutant: intent is not asked for when the backend is slirp.
Ether_Slirp(key, l) ==
    CASE key = "ether_slirp" -> l.ether = "slirp"
      [] key = "ether_drift" -> l.ether # "none" /\ l.intended # "none" /\ l.ether # l.intended
      [] OTHER -> l.ether = "bridge" /\ l.procs # {} /\ ~l.helper
Ether(key, l) ==
    CASE key = "ether_slirp" -> l.ether = "slirp" /\ l.intended # "slirp"
      [] key = "ether_drift" -> l.ether # "none" /\ l.intended # "none" /\ l.ether # l.intended
      [] OTHER -> l.ether = "bridge" /\ l.procs # {} /\ ~l.helper

Installation(key, l) ==
    CASE key = "local_env_has_host_ip" -> AddressOnSlirp(l)
      [] key = "emulator_app_stale" -> l.env.app = "moved"
      [] OTHER -> l.agent \in {"installed", "loaded", "disabled"} /\ ~l.deployed

\* The slirp router is none of the addresses of this host either.
GuestIpStale(l) == l.ip \notin {"none", "own", "other", "dup"}

Interpret(l) ==
    {key \in Finding :
        CASE key \in {"launchd_disabled", "host_server_not_running", "launchd_absent",
                      "control_port_closed"} -> Server(key, l)
          [] key \in {"host_ip_missing", "host_ip_duplicate", "host_ip_wrong_interface"} -> HostIp(key, l)
          [] key \in {"ether_slirp", "ether_drift", "etherhelper_dead"} -> Ether(key, l)
          [] key \in {"local_env_has_host_ip", "emulator_app_stale", "deploy_missing"} -> Installation(key, l)
          [] key = "guest_ip_stale" -> GuestIpStale(l)
          [] OTHER -> key \in l.guests}

Reports(l) == doctor' = [doctor EXCEPT !.pc = "idle", !.look = Blind, !.report = Interpret(l), !.done = TRUE]

\* A live image is not read.
LookAtImage ==
    /\ doctor.pc = "image"
    /\ IF doctor.look.procs # {}
       THEN Reports(doctor.look) /\ UNCHANGED vol
       ELSE doctor' = [doctor EXCEPT !.pc = "mounted"] /\ vol' = "work"
    /\ UNCHANGED <<prefs, netmode, newest, up, bundle, env, agent, disk, supply>>

ReadPrefs ==
    /\ doctor.pc = "mounted"
    /\ Reports([doctor.look EXCEPT !.ip = IF vol # "none" /\ PrefsFile \in disk[vol].files
                                          THEN disk[vol].ip ELSE "none"])
    /\ vol' = "none"
    /\ UNCHANGED <<prefs, netmode, newest, up, bundle, env, agent, disk, supply>>

-----------------------------------------------------------------------------
(* The reason it gives first, and a person who does what it says *)

FirstOf(level) ==
    {Findings[i][1] : i \in {j \in DOMAIN Findings :
        /\ Findings[j][2] = level /\ Findings[j][1] \in doctor.report
        /\ \A k \in 1..(j - 1) : Findings[k][2] = level => Findings[k][1] \notin doctor.report}}

ShortReason == IF FirstOf("error") # {} THEN FirstOf("error") ELSE FirstOf("warn")

Verdict == IF FirstOf("error") # {} THEN "error" ELSE IF FirstOf("warn") # {} THEN "warn" ELSE "ok"

\* What the report asks for.  A server started by hand on an address this machine does not
\* have says which one to set.
Fix(key) ==
    LET c == Resolved(UpNow, "none") IN
    CASE key \in {"launchd_disabled", "launchd_absent"} ->
            agent' = [agent EXCEPT !.state = "loaded"] /\ UNCHANGED <<prefs, netmode, up, env, disk>>
      [] key = "host_server_not_running" ->
            env' = [env EXCEPT !.addr = IF @ = "gone" THEN "own" ELSE @]
            /\ agent' = [agent EXCEPT !.state = "hand", !.addr = env'.addr]
            /\ UNCHANGED <<prefs, netmode, up, disk>>
      [] key \in {"host_ip_missing", "host_ip_duplicate", "host_ip_wrong_interface"} ->
            env' = [env EXCEPT !.addr = "own"] /\ UNCHANGED <<prefs, netmode, up, agent, disk>>
      [] key = "local_env_has_host_ip" ->
            env' = [env EXCEPT !.addr = "none"] /\ UNCHANGED <<prefs, netmode, up, agent, disk>>
      [] key = "emulator_app_stale" ->
            env' = [env EXCEPT !.app = "there"] /\ UNCHANGED <<prefs, netmode, up, agent, disk>>
      [] key = "deploy_missing" ->
            agent' = [agent EXCEPT !.deployed = TRUE] /\ UNCHANGED <<prefs, netmode, up, env, disk>>
      [] key = "guest_ip_stale" ->
            disk' = [disk EXCEPT !["work"].ip = "own"] /\ UNCHANGED <<prefs, netmode, up, env, agent>>
      [] key = "ether_slirp" /\ netmode[c] = "none" ->
            netmode' = [netmode EXCEPT ![c] = "slirp"] /\ UNCHANGED <<prefs, up, env, agent, disk>>
      [] key \in {"ether_slirp", "ether_drift"} /\ netmode[c] # "none" ->
            prefs' = [prefs EXCEPT ![c] = <<netmode[c]>>] /\ UNCHANGED <<netmode, up, env, agent, disk>>
      [] key = "etherhelper_dead" ->
            up' = [e \in Emulator |-> IF up[e].ether = "bridge" THEN [up[e] EXCEPT !.helper = TRUE] ELSE up[e]]
            /\ UNCHANGED <<prefs, netmode, env, agent, disk>>
      [] OTHER -> UNCHANGED <<prefs, netmode, up, env, agent, disk>>

FollowAdvice ==
    /\ doctor.pc = "idle" /\ doctor.done /\ Spends("advice")
    /\ \E key \in ShortReason : Fix(key)
    /\ doctor' = [doctor EXCEPT !.done = FALSE, !.report = {}]
    /\ UNCHANGED <<newest, bundle, vol>>

DoctorNext == LookAtProcesses \/ LookAtServices \/ LookAtFiles \/ LookAtImage \/ ReadPrefs

\* Something else changes the machine.
Unquiet == doctor' = [doctor EXCEPT !.quiet = FALSE]

=============================================================================
