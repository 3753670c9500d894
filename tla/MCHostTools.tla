---------------------------- MODULE MCHostTools -----------------------------
(***************************************************************************)
(* Seven groups of machines, each with the bounds that its question needs: *)
(* the plan and its failures, two emulators, two on the bridge, the disk   *)
(* images, an image that is still mounted from a run before, the advice of *)
(* the doctor, and the table of guests.                                    *)
(***************************************************************************)
EXTENDS HostTools, TLC

Convert == {[force |-> f, agent |-> TRUE, seed |-> "none", kit |-> "none"] : f \in BOOLEAN}
Disks   == {[force |-> FALSE, agent |-> FALSE, seed |-> s, kit |-> k] :
                s \in {"work", "none"}, k \in {"none", "own", "release"}}

None == [commands |-> Convert, runs |-> 0, faults |-> 0, crashes |-> 0, launches |-> 0, doctors |-> 0, advice |-> 0,
         edits |-> 0, jobs |-> 0, calls |-> 0]
Idle == [e \in Emulator |-> Off]
Only(b, default) == [e \in Emulator |-> IF e = "basilisk" THEN b ELSE default]
Held(b, work) == Only([ether |-> b, work |-> work, helper |-> b = "bridge"], Off)

At(n, p) == [name |-> n, port |-> p]
Seat(n, p) == [name |-> n, port |-> p, local |-> p = 1]
Twice == {Seat("a", 1), Seat("a", 2)}
MCTables == {{Seat("a", 1)}, {Seat("a", 1), Seat("b", 2)}, {Seat("b", 1), Seat("a", 2)},
             Twice}
MCConfs  == {At("a", 1), At("b", 2), At("", 2)}

NoAgent == [state |-> "absent", deployed |-> FALSE, addr |-> "none"]
Work(ip) == [files |-> App \union {PrefsFile}, ip |-> ip, baked |-> FALSE, strange |-> FALSE]
Stale   == [Work("gone") EXCEPT !.baked = TRUE]

Plain == [prefs |-> Only(<<"bridge">>, NoFile), netmode |-> Only("none", "none"), newest |-> "basilisk",
          bundle |-> [app |-> "basilisk", helper |-> FALSE, place |-> "known"],
          env |-> NoEnv, agent |-> NoAgent, up |-> Idle, work |-> Work("gone"), supply |-> None,
          table |-> {}, conf |-> [g \in Guest |-> At("a", 1)]]

PlanMachines ==
    {[Plain EXCEPT !.prefs = Only(p, NoFile), !.netmode = Only(n, "none"), !.bundle = b,
                   !.up = u, !.env = [present |-> TRUE, addr |-> "own", app |-> "moved"],
                   !.supply = [None EXCEPT !.runs = 2, !.faults = 1, !.crashes = 1, !.launches = 1]] :
        p \in {NoFile, <<>>, <<"slirp">>, <<"bridge">>, <<"slirp", "bridge">>, <<"bridge", "slirp">>},
        n \in Backend \union {"none"},
        b \in {[app |-> "basilisk", helper |-> h, place |-> w] : h \in BOOLEAN, w \in {"known", "hidden"}},
        u \in {Idle, Held("bridge", TRUE)}}

TwoMachines ==
    {[Plain EXCEPT !.prefs = [basilisk |-> p, sheepshaver |-> q], !.newest = e, !.bundle = b, !.up = u,
                   !.netmode = Only("none", n),
                   !.supply = [None EXCEPT !.runs = 1, !.faults = 1, !.doctors = 1]] :
        p \in {<<"slirp">>, <<"bridge">>}, q \in {NoFile, <<"slirp">>}, e \in Emulator,
        n \in {"none", "slirp"},
        b \in {[app |-> a, helper |-> a = "basilisk", place |-> w] :
                a \in Emulator, w \in {"known", "translocated"}},
        u \in {Idle, [e1 \in Emulator |-> IF e1 = "sheepshaver" THEN [ether |-> "slirp", work |-> FALSE, helper |-> FALSE]
                                          ELSE Off]}}

\* Two emulators on the bridge, whose prefs may have been rewritten since.
TwinMachines ==
    {[Plain EXCEPT !.prefs = [basilisk |-> p, sheepshaver |-> q],
                   !.up = [e \in Emulator |-> [ether |-> "bridge", work |-> FALSE, helper |-> TRUE]],
                   !.env = [present |-> TRUE, addr |-> "own", app |-> "there"],
                   !.agent = [state |-> "loaded", deployed |-> TRUE, addr |-> "own"],
                   !.supply = [None EXCEPT !.faults = 2, !.doctors = 1]] :
        p, q \in {<<"slirp">>, <<"bridge">>}}

DiskMachines ==
    {[Plain EXCEPT !.prefs = Only(<<"slirp">>, NoFile), !.netmode = Only("slirp", "none"), !.work = w, !.up = u,
                   !.supply = [None EXCEPT !.commands = Disks, !.runs = 1, !.faults = 1, !.crashes = 1,
                                           !.launches = 1]] :
        w \in {Work("gone"), Work("router"), Stale, Blank},
        u \in {Idle, Held("slirp", TRUE), Held("slirp", FALSE)}}

\* A run that is killed leaves the image of the guest, or a kit, mounted.
Leaves == {[force |-> FALSE, agent |-> FALSE, seed |-> s, kit |-> k] :
              s \in {"work", "kit"}, k \in {"none", "release"}}
MountMachines ==
    {[Plain EXCEPT !.prefs = Only(<<"slirp">>, NoFile), !.netmode = Only("slirp", "none"), !.work = w,
                   !.supply = [None EXCEPT !.commands = Leaves, !.runs = 2, !.faults = 1, !.crashes = 1]] :
        w \in {Work("gone"), Stale}}

\* The doctor comes while the installer is at the disk images.
KitMachines == {[m EXCEPT !.supply.doctors = 1] : m \in DiskMachines}

SickMachines ==
    {[Plain EXCEPT !.prefs = Only(p, NoFile), !.netmode = Only(n, "none"), !.work = Work(i), !.up = u,
                   !.env = [present |-> TRUE, addr |-> a, app |-> "moved"],
                   !.agent = [state |-> s, deployed |-> d, addr |-> a],
                   !.supply = [None EXCEPT !.doctors = 9, !.advice = 9]] :
        p \in {<<"slirp">>, <<"bridge">>}, n \in {"none", "slirp", "bridge"}, i \in {"gone", "router", "own"},
        u \in {Idle, Only([ether |-> "bridge", work |-> TRUE, helper |-> FALSE], Off)},
        a \in {"none", "own", "other", "gone", "dup"},
        s \in {"absent", "hand", "installed", "loaded", "disabled"}, d \in BOOLEAN}

TableMachines ==
    {[Plain EXCEPT !.prefs = Only(<<"slirp">>, NoFile), !.netmode = Only("slirp", "none"),
                   !.agent = [state |-> "loaded", deployed |-> TRUE, addr |-> "none"],
                   !.table = {Seat("a", 1), Seat("b", 2)}, !.conf = c, !.supply = s] :
        c \in {("g1" :> At("a", 1) @@ "g2" :> At("b", 2)),
               ("g1" :> At("b", 1) @@ "g2" :> At("a", 2))},
        s \in {[None EXCEPT !.edits = 1, !.jobs = 1, !.calls = 1],
               [None EXCEPT !.edits = 1, !.jobs = 1, !.faults = 1],
               [None EXCEPT !.faults = 2, !.calls = 1],
               [None EXCEPT !.edits = 1, !.jobs = 1, !.crashes = 1],
               [None EXCEPT !.edits = 1, !.jobs = 1, !.doctors = 1]}}

MCMachines == TableMachines \union PlanMachines \union TwoMachines \union TwinMachines \union DiskMachines \union MountMachines
    \union SickMachines

=============================================================================
