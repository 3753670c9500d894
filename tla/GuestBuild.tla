----------------------------- MODULE GuestBuild -----------------------------
(***************************************************************************)
(* Agents that edit and compile a project on the guest through the tools   *)
(* of mcp/tools.py (mac_write_file, mac_compile, mac_build, mpw_execute,   *)
(* mac_restart_toolserver) and the build steps of host/mpw.py.             *)
(*                                                                         *)
(* Every command is a request of its own, so agents interleave between the *)
(* steps of a build.  A status says only that the guest was reached: a     *)
(* step is judged by whether its artefact is there.  A request may be lost *)
(* on the way out or on the way back; ToolServer may die, and then answers *)
(* nothing.  What a compiler writes is the version it compiled.            *)
(***************************************************************************)
EXTENDS LoopGuard

CONSTANTS
    Agent, Source,
    Good,           \* the versions that compile
    MaxVersion,     \* bound on the versions written
    MaxFaults,      \* bound on lost requests and deaths of ToolServer
    MaxBuilds,      \* per agent: its budget of compiles and builds (CompileBudget)
    MaxEchoes       \* how often mac_restart_toolserver asks

ASSUME BuildAssumption ==
    /\ MaxVersion \in Nat \ {0} /\ Good \subseteq 1..MaxVersion
    /\ MaxFaults \in Nat /\ MaxBuilds \in [Agent -> Nat] /\ MaxEchoes \in Nat \ {0}
    /\ Source # {}

VARIABLES
    guest,      \* its files, its output folder, and whether ToolServer answers
    agent,      \* per agent: the tool call it is in, and its guards
    newest,     \* the last version written
    faults      \* lost requests and deaths so far

buildVars == <<guest, agent, newest, faults>>

-----------------------------------------------------------------------------
(* State *)

Version == 0..MaxVersion    \* 0: there is no such file

ErrFile == {"compile", "build"}     \* <object>.err and build.err

GuestState == [src : [Source -> 1..MaxVersion], obj : [Source -> Version],
               app : [Source -> Version], err : [ErrFile -> {"none", "clean", "errors"}],
               folder : BOOLEAN, toolserver : BOOLEAN]

Step == {"idle", "delete", "tool", "catenate", "exists", "alive", "folder",
         "unlink", "link", "linkdiag", "linked", "rez", "rezdiag", "launch", "echo"}

AgentState == [pc : Step, tool : ErrFile, source : Source, todo : SUBSET Source,
               failed : BOOLEAN, errors : BOOLEAN, echoes : 0..MaxEchoes, builds : Nat,
               missing : BOOLEAN,                   \* output_folder_missing was reported
               term : TerminationState,
               from : [Source -> Version],          \* history: the sources as the call began
               landed : [Source -> Version],        \* history: the agent's last write there
               judged : SUBSET Source, made : [Source -> Version],  \* history: what its last
                                                    \* compile judged, and the artefacts it saw
               undeleted : BOOLEAN,                 \* history: a Delete of this call was lost
               truly : BOOLEAN,                     \* history: the folder was missing
               upset : SUBSET {"step", "folder"}]   \* history: something was lost, died or
                                                    \* interfered, at which steps of the call

BuildTypeOK ==
    /\ guest \in GuestState
    /\ agent \in [Agent -> AgentState]
    /\ \A a \in Agent : agent[a].builds <= MaxBuilds[a]
    /\ newest \in 1..MaxVersion
    /\ faults \in 0..MaxFaults

Nowhere == [s \in Source |-> 0]

Fresh == [pc |-> "idle", tool |-> "compile", source |-> CHOOSE s \in Source : TRUE, todo |-> {},
          failed |-> FALSE, errors |-> FALSE, echoes |-> 0, builds |-> 0, missing |-> FALSE,
          term |-> NewTermination, from |-> Nowhere, landed |-> Nowhere,
          judged |-> {}, made |-> Nowhere, undeleted |-> FALSE, truly |-> FALSE, upset |-> {}]

\* A project that has been built before.
BuildInit ==
    /\ guest \in {[src |-> [s \in Source |-> 1], obj |-> old, app |-> old,
                   err |-> [e \in ErrFile |-> "clean"], folder |-> f, toolserver |-> TRUE] :
                  old \in {[s \in Source |-> 1]}, f \in BOOLEAN}
    /\ agent = [a \in Agent |-> Fresh]
    /\ newest = 1 /\ faults = 0

-----------------------------------------------------------------------------
(* A request of an agent *)

\* What may become of one: it is carried out and answered, or lost, before or
\* after; one for ToolServer also when that is gone, which costs no fault.
Fate == [ran : BOOLEAN, answered : BOOLEAN, fault : {0, 1}]

Fates(there) ==
    {f \in Fate : /\ (f.ran => there) /\ (f.answered => f.ran)
                  /\ f.fault = (IF f.answered \/ ~there THEN 0 ELSE 1)
                  /\ faults + f.fault <= MaxFaults}

Stage(a) == IF agent[a].pc = "folder" THEN {"folder"} ELSE {"step"}

\* The others that are in the middle of a call that what a does may disturb.
Disturbed(a, others) ==
    [o \in Agent |-> IF o # a /\ others /\ agent[o].pc # "idle"
                     THEN [agent[o] EXCEPT !.upset = @ \union Stage(o)] ELSE agent[o]]

\* A request that may change the guest to one of Do(g); Then gives the agent after
\* it, from its fate and the guest it met.
Request(a, there, Do(_), Then(_, _, _)) ==
    \E f \in Fates(there) : \E g \in (IF f.ran THEN Do(guest) ELSE {guest}) :
        /\ guest' = g
        /\ faults' = faults + f.fault
        /\ agent' = [Disturbed(a, g # guest) EXCEPT
                        ![a] = LET n == Then(agent[a], f, guest) IN
                               IF f.fault = 0 THEN n
                               ELSE [n EXCEPT !.upset = @ \union Stage(a)]]
        /\ UNCHANGED newest

Unchanged(g) == {g}
Continue(n, pc) == [n EXCEPT !.pc = pc]

Success(ok) == IF ok THEN "success" ELSE "failure"

\* A compile or build has ended: its result goes to the guards.
Finish(n, ok) == [n EXCEPT !.pc = "idle", !.errors = FALSE, !.term = CompileNoted(@, Success(ok))]

-----------------------------------------------------------------------------
(* Writing: mac_write_file, and mac_put_file of a source *)

Reached == {TRUE, FALSE}    \* whether is_connected() finds the control port

\* The guards count the write whatever became of it.
WriteFile(a, s) ==
    /\ agent[a].pc = "idle" /\ newest < MaxVersion
    /\ \E f \in Fates(TRUE) :
        LET v == newest + 1 IN
        /\ guest' = IF f.ran THEN [guest EXCEPT !.src[s] = v] ELSE guest
        /\ agent' = [Disturbed(a, f.ran) EXCEPT
                        ![a].term = WriteNoted(@),
                        ![a].landed[s] = IF f.ran THEN v ELSE @]
        /\ faults' = faults + f.fault
        /\ newest' = v

\* mpw_execute: any command line, here one that compiles, removes or makes a folder.
Execute(a) ==
    /\ agent[a].pc = "idle"
    /\ \E s \in Source :
        Request(a, guest.toolserver,
                LAMBDA g : {[g EXCEPT !.obj[s] = 0], [g EXCEPT !.folder = TRUE]} \union
                           (IF g.src[s] \in Good /\ g.folder THEN {[g EXCEPT !.obj[s] = g.src[s]]} ELSE {}),
                LAMBDA n, f, g : n)

-----------------------------------------------------------------------------
(* Compiling: run_step() for mac_compile, and the compile loop of mac_build *)

\* Without a connection a compile calls itself unverified, a build just fails.
Unsent(tool) == IF tool = "compile" THEN "unknown" ELSE "failure"

\* Mutant: the budget is not asked.
Begin_Unbudgeted(a, tool, sources) ==
    /\ agent[a].pc = "idle"
    /\ \E connected \in Reached, s \in sources :
        LET n == [agent[a] EXCEPT !.tool = tool, !.source = s, !.todo = sources \ {s},
                                  !.builds = @ + 1, !.failed = FALSE, !.errors = FALSE,
                                  !.missing = FALSE, !.from = guest.src, !.judged = {},
                                  !.made = Nowhere, !.undeleted = FALSE,
                                  !.truly = ~guest.folder,
                                  !.upset = IF guest.toolserver /\ connected THEN {} ELSE {"step"}]
        IN  agent' = [agent EXCEPT ![a] = IF connected THEN Continue(n, "delete")
                                          ELSE [n EXCEPT !.term = CompileNoted(@, Unsent(tool))]]
    /\ UNCHANGED <<guest, newest, faults>>

\* A call within the agent's compile budget.
Begin(a, tool, sources) ==
    /\ agent[a].pc = "idle" /\ agent[a].builds < MaxBuilds[a]
    /\ \E connected \in Reached, s \in sources :
        LET n == [agent[a] EXCEPT !.tool = tool, !.source = s, !.todo = sources \ {s},
                                  !.builds = @ + 1, !.failed = FALSE, !.errors = FALSE,
                                  !.missing = FALSE, !.from = guest.src, !.judged = {},
                                  !.made = Nowhere, !.undeleted = FALSE,
                                  !.truly = ~guest.folder,
                                  !.upset = IF guest.toolserver /\ connected THEN {} ELSE {"step"}]
        IN  agent' = [agent EXCEPT ![a] = IF connected THEN Continue(n, "delete")
                                          ELSE [n EXCEPT !.term = CompileNoted(@, Unsent(tool))]]
    /\ UNCHANGED <<guest, newest, faults>>

Compile(a) == \E s \in Source : Begin(a, "compile", {s})
Build(a)   == Begin(a, "build", Source)

\* mac_compile with -o among the options: one command, and nothing is verified.
CompileUnverified(a) ==
    /\ agent[a].pc = "idle" /\ agent[a].builds < MaxBuilds[a]
    /\ Request(a, guest.toolserver, Unchanged,
               LAMBDA n, f, g : [n EXCEPT !.builds = @ + 1, !.judged = {},
                                          !.term = CompileNoted(@, "unknown")])

\* Mutant: the artefact of before is left in place.
Delete_Skipped(a) ==
    /\ agent[a].pc = "delete"
    /\ agent' = [agent EXCEPT ![a].pc = "tool"]
    /\ UNCHANGED <<guest, newest, faults>>

\* run_step removes the error file too, mac_build does not.
Delete(a) ==
    /\ agent[a].pc = "delete"
    /\ LET s == agent[a].source IN
       Request(a, guest.toolserver,
               LAMBDA g : {[g EXCEPT !.obj[s] = 0,
                              !.err["compile"] = IF agent[a].tool = "compile" THEN "none" ELSE @]},
               LAMBDA n, f, g : [Continue(n, "tool") EXCEPT !.undeleted = @ \/ ~f.ran])

\* A tool that fails may also say nothing.
Said(g, e, ok) ==
    {[g EXCEPT !.err[e] = said] : said \in IF ok THEN {"clean"} ELSE {"clean", "errors"}}

Tool(a) ==
    /\ agent[a].pc = "tool"
    /\ LET s == agent[a].source
           e == agent[a].tool
       IN  Request(a, guest.toolserver,
                   LAMBDA g : IF ~g.folder THEN {g}
                              ELSE IF g.src[s] \in Good
                              THEN Said([g EXCEPT !.obj[s] = g.src[s]], e, TRUE)
                              ELSE Said(g, e, FALSE),
                   LAMBDA n, f, g : Continue(n, "catenate"))

Diagnose(n, f, g) == f.answered /\ g.err[n.tool] = "errors"

Catenate(a) ==
    /\ agent[a].pc = "catenate"
    /\ Request(a, guest.toolserver, Unchanged,
               LAMBDA n, f, g : [Continue(n, "exists") EXCEPT !.errors = Diagnose(n, f, g)])

\* What follows a verdict on the object: a compile that failed looks for the reason,
\* a build goes on to the next source and links when all are there.
Judge(n, found) ==
    IF n.tool = "compile" THEN IF found THEN Finish(n, TRUE) ELSE Continue(n, "alive")
    ELSE IF n.todo # {} THEN LET next == CHOOSE s \in n.todo : TRUE IN
         [Continue(n, "delete") EXCEPT !.source = next, !.todo = @ \ {next},
                                       !.failed = @ \/ ~found]
    ELSE IF n.failed \/ ~found THEN Finish([n EXCEPT !.failed = TRUE], FALSE)
    ELSE Continue(n, "unlink")

\* Mutant: the answer is searched for a token the protocol does not emit.
Exists_Token(a) ==
    /\ agent[a].pc = "exists"
    /\ LET s == agent[a].source IN
       Request(a, guest.toolserver, Unchanged,
               LAMBDA n, f, g : Judge([n EXCEPT !.judged = @ \union {s}, !.made[s] = g.obj[s]],
                                      FALSE))

Exists(a) ==
    /\ agent[a].pc = "exists"
    /\ LET s == agent[a].source IN
       Request(a, guest.toolserver, Unchanged,
               LAMBDA n, f, g : Judge([n EXCEPT !.judged = @ \union {s}, !.made[s] = g.obj[s]],
                                      f.answered /\ g.obj[s] # 0))

\* Mutant: the folder is asked for although nobody may be answering.
Alive_Ignored(a) ==
    /\ agent[a].pc = "alive"
    /\ Request(a, guest.toolserver, Unchanged, LAMBDA n, f, g : Continue(n, "folder"))

\* toolserver_alive: the folder is only asked for when ToolServer answers.
Alive(a) ==
    /\ agent[a].pc = "alive"
    /\ Request(a, guest.toolserver, Unchanged,
               LAMBDA n, f, g : IF f.answered THEN Continue(n, "folder") ELSE Finish(n, FALSE))

\* output_folder_missing: an empty answer is taken for "not there".
Folder(a) ==
    /\ agent[a].pc = "folder"
    /\ Request(a, guest.toolserver, Unchanged,
               LAMBDA n, f, g : Finish([n EXCEPT !.missing = ~f.answered \/ ~g.folder,
                                           !.truly = ~g.folder], FALSE))

-----------------------------------------------------------------------------
(* Linking: the second half of mac_build *)

Unlink(a) ==
    /\ agent[a].pc = "unlink"
    /\ Request(a, guest.toolserver, LAMBDA g : {[g EXCEPT !.app = Nowhere]},
               LAMBDA n, f, g : [Continue(n, "link") EXCEPT !.undeleted = @ \/ ~f.ran])

LinkApp(a) ==
    /\ agent[a].pc = "link"
    /\ Request(a, guest.toolserver,
               LAMBDA g : Said(g, "build", FALSE) \union
                          (IF \A s \in Source : g.obj[s] # 0
                           THEN Said([g EXCEPT !.app = g.obj], "build", TRUE) ELSE {}),
               LAMBDA n, f, g : Continue(n, "linkdiag"))

LinkDiag(a) ==
    /\ agent[a].pc = "linkdiag"
    /\ Request(a, guest.toolserver, Unchanged,
               LAMBDA n, f, g : [Continue(n, "linked") EXCEPT !.errors = Diagnose(n, f, g)])

\* A link needs the application and no diagnostic.  With a resource file Rez follows.
Linked(a) ==
    /\ agent[a].pc = "linked"
    /\ \E withRez \in BOOLEAN :
       Request(a, guest.toolserver, Unchanged,
               LAMBDA n, f, g :
                   LET m == [n EXCEPT !.made = g.app] IN
                   IF ~f.answered \/ g.app = Nowhere \/ n.errors THEN Finish(m, FALSE)
                   ELSE IF withRez THEN Continue(m, "rez") ELSE Finish(m, TRUE))

Rez(a) ==
    /\ agent[a].pc = "rez"
    /\ Request(a, guest.toolserver, LAMBDA g : Said(g, "build", FALSE),
               LAMBDA n, f, g : Continue(n, "rezdiag"))

\* Rez is judged by its diagnostics alone.
RezDiag(a) ==
    /\ agent[a].pc = "rezdiag"
    /\ Request(a, guest.toolserver, Unchanged,
               LAMBDA n, f, g : Finish(n, ~Diagnose(n, f, g)))

-----------------------------------------------------------------------------
(* ToolServer *)

Die ==
    /\ guest.toolserver /\ faults < MaxFaults
    /\ guest' = [guest EXCEPT !.toolserver = FALSE]
    /\ faults' = faults + 1
    /\ agent' = [a \in Agent |-> IF agent[a].pc = "idle" THEN agent[a]
                                 ELSE [agent[a] EXCEPT !.upset = @ \union Stage(a)]]
    /\ UNCHANGED newest

\* mac_restart_toolserver: LAUNCH, then Echo until it answers.
Launch(a) ==
    /\ agent[a].pc = "idle"
    /\ Request(a, TRUE, LAMBDA g : {[g EXCEPT !.toolserver = TRUE]},
               LAMBDA n, f, g : IF f.answered THEN [Continue(n, "echo") EXCEPT !.echoes = 0] ELSE n)

Echo(a) ==
    /\ agent[a].pc = "echo"
    /\ Request(a, guest.toolserver, Unchanged,
               LAMBDA n, f, g : IF f.answered \/ n.echoes + 1 = MaxEchoes THEN Continue(n, "idle")
                                ELSE [n EXCEPT !.echoes = @ + 1])

CompileStep(a) == Delete(a) \/ Tool(a) \/ Catenate(a) \/ Exists(a) \/ Alive(a) \/ Folder(a)
LinkStep(a)    == Unlink(a) \/ LinkApp(a) \/ LinkDiag(a) \/ Linked(a) \/ Rez(a) \/ RezDiag(a)

BuildNext ==
    \/ \E a \in Agent, s \in Source : WriteFile(a, s)
    \/ \E a \in Agent : \/ Execute(a)
                        \/ Compile(a) \/ Build(a) \/ CompileUnverified(a)
                        \/ CompileStep(a) \/ LinkStep(a)
                        \/ Launch(a) \/ Echo(a)
    \/ Die

BuildSpec == BuildInit /\ [][BuildNext]_buildVars

-----------------------------------------------------------------------------
(* Properties *)

Idle(a) == agent[a].pc = "idle"

\* "recompiled_ok" is true: everything the last compile judged was compiled from a
\* source no older than the agent's last write to it and than the call itself,
\* whatever other agents did meanwhile, unless the Delete before the compiler was lost.
ClosedLoopIsFresh ==
    \A a \in Agent :
        Idle(a) /\ Ending(agent[a].term) = "recompiled_ok" /\ ~agent[a].undeleted =>
            \A s \in agent[a].judged : agent[a].made[s] >= Max({agent[a].landed[s], agent[a].from[s]})

\* "recompiled_failed" is true: a call that nothing disturbed finds no object because
\* a source does not compile or the folder is not there.
FailureIsReal ==
    \A a \in Agent :
        /\ Idle(a) /\ Ending(agent[a].term) = "recompiled_failed" /\ agent[a].upset = {}
        /\ agent[a].tool = "compile" \/ agent[a].failed
        => \/ agent[a].truly
           \/ \E s \in agent[a].judged : agent[a].from[s] \notin Good

\* A folder is not called missing because ToolServer is gone (run_step: "liveness
\* first"): it is missing, or the answer to that very question was lost.
FolderIsMissing ==
    \A a \in Agent :
        agent[a].missing => agent[a].truly \/ "folder" \in agent[a].upset

\* A verdict of failure has its cause in the guest: a source, a folder, or a loss.
BuildInv == BuildTypeOK /\ FailureIsReal /\ FolderIsMissing

\* What the guards tell an agent between its calls is what happened: a loop is reported when its
\* calls are in the window, and the log has every key and outcome of the calls.
GuardsTellTrue == (\E a \in Agent : Idle(a)) => LoopsAreNoticed /\ NothingForgotten

=============================================================================
