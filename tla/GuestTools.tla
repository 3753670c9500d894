----------------------------- MODULE GuestTools -----------------------------
(***************************************************************************)
(* The tools of mcp/tools.py that take several requests to do one thing on *)
(* the guest, called by agents that share it: typing (mac_type), choosing  *)
(* from the front application's menu (mac_menu_front), fetching a page     *)
(* (mac_https_get), replacing the daemon (mac_update_daemon, mac_reboot),  *)
(* sending an Apple Event that nobody answers, listing a folder; and the   *)
(* tools of one request, which differ in the verb only.                    *)
(*                                                                         *)
(* A request is carried out or not, and its answer comes, is lost (then    *)
(* the status is not 0), or the connection breaks (then it raises).        *)
(***************************************************************************)
EXTENDS SelfUpdate, Sequences

CONSTANTS
    Client,         \* MCP processes that share the guest
    Remote,         \* those that may also name a guest on another machine
    Chunks,         \* the TYPE and KEY requests a text takes
    Items,          \* menu items
    MaxPolls,       \* bound on the reads of https.log within the timeout
    Plans           \* which tools are called, how often by each client, and bounds on lost
                    \* answers, broken connections and steps that fail

Tool == {"type", "menu", "https", "update", "reboot", "event", "list", "verb"}

ASSUME ToolsAssumption ==
    /\ Remote \subseteq Client
    /\ Chunks \in Nat \ {0} /\ MaxPolls \in Nat \ {0}
    /\ Plans \subseteq [tools : SUBSET Tool, calls : Nat, faults : Nat] /\ Plans # {}
    /\ Items \subseteq Nat \ {0} /\ Items # {}

VARIABLES
    plan,       \* one of Plans
    guest,      \* what the tools act on
    client,     \* per client: its call
    runs,       \* requests for pages so far, which number the nonces
    faults

vars == <<plan, guest, client, runs, faults>>

-----------------------------------------------------------------------------
(* State *)

Nobody == 0

Run     == Nat  \* 0: a run from before the model begins
Absent  == -1   \* there is no such file, nothing runs

GuestState ==
    [typed : Seq(Client \X (1..Chunks)),
     armed : Items \union {Nobody}, hits : Nat, last : Items \union {Nobody},   \* the menu patch
     req : Run, fetching : Run \union {Absent},                    \* https.req, the application
     out : Run \union {Absent}, log : Run \union {Absent},         \* whose run wrote them
     folder : Folder,                                              \* the daemon's
     front : {"reads", "stuck", "absent"}]                         \* an application that is sent to

ClientState ==
    [pc : {"idle", "type", "adopt", "before", "arm", "trigger", "read", "after",
           "write", "launch", "poll", "out", "home", "stage", "swap", "boot",
           "probe", "send", "listdir", "files", "verb"},
     tool : Tool, calls : Nat, result : {"none", "yes", "no", "unknown"},
     n : Nat,                                \* chunks typed, polls or clicks left
     item : Items, before : Nat,             \* the item wanted, the hits read before
     nonce : Run, page : Run \union {Absent},     \* of its request, and of the page it got
     done : BOOLEAN,        \* history: the guest did what this call asks for
     blind : BOOLEAN,       \* history: a read this call relies on gave nothing
     read : BOOLEAN]        \* history: the target read its events when it was probed

TypeOK ==
    /\ plan \in Plans
    /\ guest \in GuestState
    /\ client \in [Client -> ClientState]
    /\ \A c \in Client : client[c].calls <= plan.calls
    /\ runs \in Run
    /\ faults \in 0..plan.faults

\* A guest that was used before: an item was chosen, a page fetched, a binary staged.
Init ==
    /\ plan \in Plans
    /\ \E item \in Items, folder \in Folders0, front \in {"reads", "stuck", "absent"} :
        /\ "update" \notin plan.tools => folder.next = "none" /\ folder.last = "none"
        /\ "event" \notin plan.tools => front = "reads"
        /\ guest = [typed |-> <<>>, armed |-> Nobody, hits |-> 1, last |-> item,
                 req |-> 0, fetching |-> Absent, out |-> 0, log |-> 0,
                 folder |-> folder, front |-> front]
    /\ client = [c \in Client |->
                    [pc |-> "idle", tool |-> "verb", calls |-> 0, result |-> "none", n |-> 0,
                     item |-> CHOOSE i \in Items : TRUE, before |-> 0, nonce |-> 0, page |-> Absent,
                     done |-> FALSE, blind |-> FALSE, read |-> FALSE]]
    /\ runs = 0 /\ faults = 0

-----------------------------------------------------------------------------
(* A request *)

Fate == {[ran |-> TRUE, answer |-> "reply"]} \union
        {[ran |-> r, answer |-> a] : r \in BOOLEAN, a \in {"none", "raised"}}

\* Without a daemon every request fails, and the server says so.
Fates(g) == IF g.folder.up # "gone" THEN Fate ELSE {f \in Fate : ~f.ran}

Cost(f) == IF f.answer = "reply" \/ guest.folder.up = "gone" THEN 0 ELSE 1

Pays(n) == faults + n <= plan.faults /\ faults' = faults + n

\* A request that changes the guest to Do(g).  Then gives the client after it, from
\* the fate and the guest as the request left it.
Request(c, Do(_), Then(_, _, _)) ==
    \E f \in Fates(guest) :
        /\ Pays(Cost(f))
        /\ guest' = IF f.ran THEN Do(guest) ELSE guest
        /\ client' = [client EXCEPT ![c] = Then(@, f, guest')]
        /\ UNCHANGED <<plan, runs>>

Same(g) == g
Replied(f) == f.answer = "reply"
To(k, pc) == [k EXCEPT !.pc = pc]
End(k, result) == [k EXCEPT !.pc = "idle", !.result = result]
Verdict(k, ok) == End(k, IF ok THEN "yes" ELSE "no")

\* Where a tool begins.
First == [type |-> "type", menu |-> "adopt", https |-> "write", update |-> "home",
          reboot |-> "boot", event |-> "probe", list |-> "listdir", verb |-> "verb"]

\* call_tool(): a tool that acts on this machine's screen is refused for a guest on
\* another, and no tool begins without a control port.  Of the calls that name another
\* guest only the refused ones are here: the rest do not touch this one.
Begin(c, tool) ==
    /\ client[c].pc = "idle" /\ client[c].calls < plan.calls /\ tool \in plan.tools
    /\ \E connected \in BOOLEAN, elsewhere \in BOOLEAN, item \in Items :
        /\ elsewhere => tool = "menu" /\ c \in Remote
        /\ LET k == [client[c] EXCEPT !.tool = tool, !.calls = @ + 1, !.result = "none",
                                      !.n = 0, !.item = item, !.before = 0, !.page = Absent,
                                      !.done = FALSE, !.blind = FALSE, !.read = FALSE]
           IN  client' = [client EXCEPT ![c] =
                   IF elsewhere \/ ~connected THEN End(k, "no") ELSE To(k, First[tool])]
    /\ UNCHANGED <<plan, guest, runs, faults>>

\* The tools of one request: launch_app, mac_click, mac_key, mac_clipboard_get and
\* _set, mac_screenshot, mac_get_file, mac_verbose_log and mac_menu.
Verb(c) ==
    /\ client[c].pc = "verb"
    /\ Request(c, Same, LAMBDA k, f, g : Verdict([k EXCEPT !.done = f.ran], Replied(f)))

\* mac_list_files: natively, and through ToolServer when that gives nothing.
ListDir(c) ==
    /\ client[c].pc = "listdir"
    /\ Request(c, Same, LAMBDA k, f, g :
               IF Replied(f) THEN End([k EXCEPT !.done = TRUE], "yes")
               ELSE IF f.answer = "raised" THEN End(k, "no") ELSE To(k, "files"))

Files(c) ==
    /\ client[c].pc = "files"
    /\ Request(c, Same, LAMBDA k, f, g : Verdict([k EXCEPT !.done = f.ran], Replied(f)))

-----------------------------------------------------------------------------
(* mac_type: a text in pieces *)

\* Mutant: a piece that is not acknowledged does not end the call.
TypeChunk_Onwards(c) ==
    /\ client[c].pc = "type"
    /\ LET n == client[c].n + 1 IN
       Request(c, LAMBDA g : [g EXCEPT !.typed = Append(@, <<c, n>>)],
               LAMBDA k, f, g :
                   LET m == [k EXCEPT !.n = n, !.done = f.ran] IN
                   IF n = Chunks THEN End(m, "yes") ELSE m)

TypeChunk(c) ==
    /\ client[c].pc = "type"
    /\ LET n == client[c].n + 1 IN
       Request(c, LAMBDA g : [g EXCEPT !.typed = Append(@, <<c, n>>)],
               LAMBDA k, f, g :
                   LET m == [k EXCEPT !.n = n, !.done = f.ran] IN
                   IF ~Replied(f) THEN End(m, "no")
                   ELSE IF n = Chunks THEN End(m, "yes") ELSE m)

-----------------------------------------------------------------------------
(* mac_menu_front: arm the patch, click, look whether it fired *)

Adopt(c) ==
    /\ client[c].pc = "adopt"
    /\ Request(c, Same, LAMBDA k, f, g : To(k, "before"))

\* A count that was not read passes for 0.
Before(c) ==
    /\ client[c].pc = "before"
    /\ Request(c, Same, LAMBDA k, f, g :
               IF Replied(f) THEN [To(k, "arm") EXCEPT !.before = g.hits]
               ELSE [To(k, "arm") EXCEPT !.blind = TRUE])

\* A menu of the front application is opened: by the trigger, by the click that
\* MSDRIVE posts, or by whoever uses the guest.  An armed patch returns its item.
Opened(g) ==
    IF g.armed = Nobody THEN g
    ELSE [g EXCEPT !.hits = @ + 1, !.last = g.armed, !.armed = Nobody]

\* Whom that makes the choice of, for the history.
Chosen(item) ==
    [c \in Client |-> IF client[c].tool = "menu" /\ client[c].pc # "idle" /\ client[c].item = item
                      THEN [client[c] EXCEPT !.done = TRUE] ELSE client[c]]

Open ==
    /\ guest.armed # Nobody
    /\ guest' = Opened(guest)
    /\ client' = Chosen(guest.armed)
    /\ UNCHANGED <<plan, runs, faults>>

Arm(c) ==
    /\ client[c].pc = "arm"
    /\ LET item == client[c].item IN
       Request(c, LAMBDA g : [g EXCEPT !.armed = item],
               LAMBDA k, f, g : IF Replied(f) THEN [To(k, "trigger") EXCEPT !.n = 2] ELSE End(k, "no"))

\* The click on this machine's screen, at most twice; it may fail, or miss.
Trigger(c) ==
    /\ client[c].pc = "trigger"
    /\ \/ /\ guest' = Opened(guest)
          /\ client' = [Chosen(guest.armed) EXCEPT ![c].pc = "read", ![c].n = @ - 1]
       \/ \E pc \in {"read", "after"} :
          /\ client' = [client EXCEPT ![c].pc = pc, ![c].n = @ - 1]
          /\ UNCHANGED guest
    /\ UNCHANGED <<plan, runs, faults>>

\* Mutant: the clicks are not counted.
Read_Onwards(c) ==
    /\ client[c].pc = "read"
    /\ Request(c, Same, LAMBDA k, f, g :
               IF Replied(f) /\ g.hits > k.before THEN To(k, "after") ELSE To(k, "trigger"))

\* Between the clicks, and, once more, for the verdict.
Read(c) ==
    /\ client[c].pc = "read"
    /\ Request(c, Same, LAMBDA k, f, g :
               IF k.n = 0 \/ (Replied(f) /\ g.hits > k.before) THEN To(k, "after")
               ELSE To(k, "trigger"))

\* Mutant: what the patch returned last is not compared.
After_HitsOnly(c) ==
    /\ client[c].pc = "after"
    /\ Request(c, Same, LAMBDA k, f, g : Verdict(k, Replied(f) /\ g.hits > k.before))

After(c) ==
    /\ client[c].pc = "after"
    /\ Request(c, Same, LAMBDA k, f, g :
               Verdict(k, Replied(f) /\ g.hits > k.before /\ g.last = k.item))

-----------------------------------------------------------------------------
(* mac_https_get: a request file, an application, a log that carries the nonce *)

WriteReq(c) ==
    /\ client[c].pc = "write"
    /\ LET nonce == runs + 1 IN
       /\ \E f \in Fates(guest) :
          /\ Pays(Cost(f))
          /\ guest' = IF f.ran THEN [guest EXCEPT !.req = nonce] ELSE guest
          /\ client' = [client EXCEPT ![c] =
                IF Replied(f) THEN [To(@, "launch") EXCEPT !.nonce = nonce] ELSE End(@, "no")]
       /\ runs' = nonce /\ UNCHANGED plan

\* An application that runs already is only brought to the front.
LaunchGet(c) ==
    /\ client[c].pc = "launch"
    /\ Request(c, LAMBDA g : IF g.fetching # Absent THEN g
                             ELSE [g EXCEPT !.fetching = g.req, !.out = Absent, !.log = Absent],
               LAMBDA k, f, g : IF Replied(f) THEN [To(k, "poll") EXCEPT !.n = MaxPolls] ELSE End(k, "no"))

\* httpsget writes the response as it comes, and the log as it ends.
FetchOut ==
    /\ guest.fetching # Absent /\ guest.out = Absent
    /\ guest' = [guest EXCEPT !.out = guest.fetching]
    /\ UNCHANGED <<plan, client, runs, faults>>

FetchLog ==
    /\ guest.fetching # Absent
    /\ guest' = [guest EXCEPT !.log = guest.fetching, !.fetching = Absent]
    /\ UNCHANGED <<plan, client, runs, faults>>

\* Mutant: any log will do.
Poll_AnyLog(c) ==
    /\ client[c].pc = "poll"
    /\ Request(c, Same, LAMBDA k, f, g :
               IF Replied(f) /\ g.log # Absent THEN To(k, "out")
               ELSE IF f.answer = "raised" \/ k.n = 1 THEN End(k, "no")
               ELSE [k EXCEPT !.n = @ - 1])

\* Mutant: it polls until the log is there.
Poll_Forever(c) ==
    /\ client[c].pc = "poll"
    /\ Request(c, Same, LAMBDA k, f, g :
               IF Replied(f) /\ g.log = k.nonce THEN To(k, "out")
               ELSE IF f.answer = "raised" THEN End(k, "no") ELSE k)

Poll(c) ==
    /\ client[c].pc = "poll"
    /\ Request(c, Same, LAMBDA k, f, g :
               IF Replied(f) /\ g.log = k.nonce THEN To(k, "out")
               ELSE IF f.answer = "raised" \/ k.n = 1 THEN End(k, "no")
               ELSE [k EXCEPT !.n = @ - 1])

\* Whose response it is, is not looked at; a failed fetch left no headers.
ReadOut(c) ==
    /\ client[c].pc = "out"
    /\ \E headers \in BOOLEAN :
       Request(c, Same, LAMBDA k, f, g :
               Verdict([k EXCEPT !.page = g.out], Replied(f) /\ g.out # Absent /\ headers))

-----------------------------------------------------------------------------
(* mac_update_daemon, mac_reboot and mac_shutdown *)

\* The folder comes from mac_status, which never raises.
Home(c) ==
    /\ client[c].pc = "home"
    /\ Request(c, Same, LAMBDA k, f, g : IF Replied(f) THEN To(k, "stage") ELSE End(k, "no"))

\* The staged binary is written beside the daemon.  A transfer that breaks off spoils what
\* another agent has staged.
Stage(c) ==
    /\ client[c].pc = "stage"
    /\ \E f \in Fates(guest) :
        /\ Pays(Cost(f))
        /\ \E folder \in IF f.ran THEN {[guest.folder EXCEPT !.next = "since"]}
                         ELSE IF guest.folder.up # "gone" THEN Broken(guest.folder)
                         ELSE {guest.folder} :
            LET spoiled == folder.next \notin Whole
                            /\ \E d \in Client : client[d].pc = "swap" IN
            /\ guest' = [guest EXCEPT !.folder = [folder EXCEPT !.mishap = @ \/ spoiled]]
            /\ client' = [d \in Client |->
                  IF d = c
                  THEN IF Replied(f) THEN To(client[c], "swap") ELSE End(client[c], "no")
                  ELSE [client[d] EXCEPT !.blind = @ \/ (spoiled /\ client[d].pc = "swap")]]
    /\ UNCHANGED <<plan, runs>>

\* The guest starts again.
Restarted(g) ==
    [g EXCEPT !.folder = Exits(@), !.fetching = Absent, !.armed = Nobody, !.hits = 0, !.last = Nobody]

\* SWAPSELF.  The answer says whether all of it was done; without one the machine may have
\* stopped on the way.
Swap(c) ==
    /\ client[c].pc = "swap"
    /\ \E f \in Fates(guest), bad \in 0..2 :
        /\ Pays(Cost(f) + bad)
        /\ ~f.ran \/ ~Staged(guest.folder) => bad = 0
        /\ LET done == f.ran /\ bad = 0 /\ Staged(guest.folder) IN
           /\ \/ \E folder \in IF f.ran THEN SwapSelf(guest.folder, bad) ELSE {guest.folder} :
                 guest' = [guest EXCEPT !.folder = folder]
              \/ /\ f.ran /\ ~Replied(f) /\ bad = 0
                 /\ \E folder \in CutShort(guest.folder) :
                    guest' = Restarted([guest EXCEPT !.folder = folder])
           /\ client' = [client EXCEPT ![c] =
                 Verdict([@ EXCEPT !.done = done /\ guest.folder.next = "since"], Replied(f) /\ done)]
    /\ UNCHANGED <<plan, runs>>

\* A broken connection passes for a restart.
Reboot(c) ==
    /\ client[c].pc = "boot"
    /\ Request(c, Restarted,
               LAMBDA k, f, g : Verdict([k EXCEPT !.done = f.ran, !.blind = f.answer = "raised"],
                                        Replied(f) \/ f.answer = "raised"))

\* The daemon crashes or is made to quit; its watchdog launches it again.
Dies ==
    /\ guest.folder.up # "gone" /\ Pays(1)
    /\ guest' = [guest EXCEPT !.folder = Exits(@)]
    /\ UNCHANGED <<plan, client, runs>>

Watchdog ==
    /\ Launches(guest.folder) # guest.folder
    /\ guest' = [guest EXCEPT !.folder = Launches(@)]
    /\ UNCHANGED <<plan, client, runs, faults>>

-----------------------------------------------------------------------------
(* mac_send_apple_event without a reply *)

\* Mutant: the target is not asked whether it reads its events.
Probe_Skipped(c) ==
    /\ client[c].pc = "probe"
    /\ Request(c, Same, LAMBDA k, f, g : [To(k, "send") EXCEPT !.read = f.ran /\ g.front = "reads"])

\* Only a target that runs and does not read is spared; no answer passes for one.
Probe(c) ==
    /\ client[c].pc = "probe"
    /\ Request(c, Same, LAMBDA k, f, g :
               IF f.answer = "raised" THEN End(k, "no")
               ELSE IF Replied(f) /\ g.front = "stuck" THEN End(k, "unknown")
               ELSE [To(k, "send") EXCEPT !.read = f.ran /\ g.front = "reads",
                                          !.blind = ~Replied(f) \/ g.front = "absent"])

\* STATUS:0 says it was delivered.
Send(c) ==
    /\ client[c].pc = "send"
    /\ LET there == guest.front # "absent" IN
       Request(c, Same, LAMBDA k, f, g : Verdict([k EXCEPT !.done = f.ran /\ there], Replied(f) /\ there))

\* The application hangs, quits or comes back (while somebody is sending to it: at
\* another time it makes no difference).
Behave ==
    /\ \E front \in {"reads", "stuck", "absent"} :
        front # guest.front /\ guest' = [guest EXCEPT !.front = front]
    /\ \E c \in Client : client[c].tool = "event" /\ client[c].pc # "idle"
    /\ UNCHANGED <<plan, client, runs, faults>>

-----------------------------------------------------------------------------

Step(c) ==
    \/ Verb(c) \/ ListDir(c) \/ Files(c) \/ TypeChunk(c)
    \/ Adopt(c) \/ Before(c) \/ Arm(c) \/ Trigger(c) \/ Read(c) \/ After(c)
    \/ WriteReq(c) \/ LaunchGet(c) \/ Poll(c) \/ ReadOut(c)
    \/ Home(c) \/ Stage(c) \/ Swap(c) \/ Reboot(c)
    \/ Probe(c) \/ Send(c)

Next ==
    \/ \E c \in Client : Step(c) \/ \E tool \in Tool : Begin(c, tool)
    \/ Open \/ FetchOut \/ FetchLog \/ Behave \/ Dies \/ Watchdog

\* A process that is in a call goes on with it.
Spec == Init /\ [][Next]_vars /\ \A c \in Client : WF_vars(Step(c))

-----------------------------------------------------------------------------
(* Properties *)

Ended(c) == client[c].pc = "idle" /\ client[c].calls > 0

\* A tool that reports success has had its effect, in whatever way the calls of
\* several agents interleave, and although any answer may be lost: the last piece of
\* text was typed, this item was chosen since the call began, the binary installed was
\* staged since, and whole.  Excepted are a choice from the menu whose count was not read
\* before it, a restart whose connection broke, and an update whose binary another agent's
\* broken transfer spoiled before the swap.
SuccessIsReal ==
    \A c \in Client :
        Ended(c) /\ client[c].result = "yes" /\ client[c].tool # "https" =>
            client[c].done \/ (client[c].blind /\ client[c].tool \in {"menu", "reboot", "update"})

\* The pieces of c follow one another, from the first.
InTurn(c, typed) ==
    \A i \in DOMAIN typed : typed[i][1] = c =>
        /\ typed[i][2] = 1 \/ \E j \in 1..(i - 1) : typed[j] = <<c, typed[i][2] - 1>>
        /\ \A j \in 1..(i - 1) : typed[j][1] = c => typed[j][2] < typed[i][2]

\* What mac_type has typed is a beginning of the text, and a success the whole of
\* it: no piece is left out or comes out of its turn.
TextIsWhole ==
    \A c \in Client : client[c].tool = "type" /\ client[c].calls = 1 =>
        /\ InTurn(c, guest.typed)
        /\ client[c].result = "yes" => \E i \in DOMAIN guest.typed : guest.typed[i] = <<c, Chunks>>

\* The page an agent is given is that of its own request or of a later one, never one
\* that was there before it asked: the log that is waited for carries its nonce,
\* though the response that is read after it does not.
PageIsNotOld ==
    \A c \in Client :
        Ended(c) /\ client[c].tool = "https" /\ client[c].result = "yes" =>
            client[c].page >= client[c].nonce

\* An event that is reported as sent was sent to an application that read its events
\* when it was probed, unless the probe was not answered or found nobody.
SentIsRead ==
    \A c \in Client :
        Ended(c) /\ client[c].tool = "event" /\ client[c].result = "yes" =>
            client[c].read \/ client[c].blind

\* Every call ends, whatever is lost and whoever else is using the guest.
CallsEnd == \A c \in Client : client[c].pc # "idle" ~> client[c].pc = "idle"

\* A success is one, and a page the agent is shown is not from before its request.
ResultsAreReal == SuccessIsReal /\ PageIsNotOld

\* What is done piece by piece goes on only from a piece that is there; and no update leaves
\* the guest without a daemon to go back to.
ToolsInv == TypeOK /\ TextIsWhole /\ SentIsRead /\ DaemonStays(guest.folder)

=============================================================================
