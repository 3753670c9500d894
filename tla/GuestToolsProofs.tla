-------------------------- MODULE GuestToolsProofs --------------------------
(***************************************************************************)
(* The inductive invariant of GuestTools: what a call in its course may    *)
(* rely on, so that what it reports in the end is true, for every number   *)
(* of agents that share the guest.                                         *)
(***************************************************************************)
EXTENDS GuestTools, TLAPS

-----------------------------------------------------------------------------
(* The invariant *)

\* A call in its course has the tool that goes this way, has said nothing, and has clicks or polls
\* left where it goes on to use one.
InCourse(k) ==
    /\ k.pc # "idle" => k.calls > 0 /\ k.result = "none"
    /\ k.pc \in {"trigger", "poll"} => k.n > 0
    /\ k.pc = "type" => k.tool = "type" /\ k.n < Chunks
    /\ k.pc \in {"adopt", "before", "arm", "trigger", "read", "after"} => k.tool = "menu"
    /\ k.pc \in {"write", "launch", "poll", "out"} => k.tool = "https"
    /\ k.pc \in {"home", "stage", "swap"} => k.tool = "update"
    /\ k.pc = "boot" => k.tool = "reboot"
    /\ k.pc \in {"probe", "send"} => k.tool = "event"
    /\ k.pc \in {"listdir", "files"} => k.tool = "list"
    /\ k.pc = "verb" => k.tool = "verb"

\* More choices were made than before the click, the last of them this item: then this call's
\* choice was made.
ChoiceIsMarked(k, g) ==
    k.pc \in {"arm", "trigger", "read", "after"} /\ ~k.blind /\ g.hits > k.before /\ g.last = k.item
        => k.done

\* A request that waits for its page is not newer than what the guest was last asked for, and the
\* response beside the log that carries its nonce is not older than the request.
PageIsAhead(k, g) ==
    /\ k.pc \in {"launch", "poll", "out"} => k.nonce <= g.req
    /\ k.pc = "out" => /\ g.out = Absent \/ k.nonce <= g.out
                       /\ g.fetching = Absent \/ k.nonce <= g.fetching

\* Who is about to swap has staged what is there, unless it was spoiled.
BinaryIsStaged(k, g) ==
    k.pc = "swap" =>
        /\ k.blind \/ g.folder.next \in {"since", "none"}
        /\ g.folder.mishap \/ g.folder.next # "part"

\* Who sends has found a reader, or nobody.
TargetIsProbed(k) == k.pc = "send" => k.read \/ k.blind

\* A success that is one.
Real(k) ==
    /\ k.calls > 0
    /\ k.tool # "https" => k.done \/ (k.blind /\ k.tool \in {"menu", "reboot", "update"})
    /\ k.tool = "https" => k.page >= k.nonce
    /\ k.tool = "event" => k.read \/ k.blind

\* What a call that is over has reported.
ReportIsTrue(k) == k.pc = "idle" /\ k.result = "yes" => Real(k)

CallInv(k, g) ==
    /\ k \in ClientState
    /\ InCourse(k) /\ ChoiceIsMarked(k, g) /\ PageIsAhead(k, g) /\ BinaryIsStaged(k, g)
    /\ TargetIsProbed(k) /\ ReportIsTrue(k)

Has(c, n, typed) == \E i \in DOMAIN typed : typed[i] = <<c, n>>

\* The text of a first call: its pieces so far, all of them at a success, none before.
TextOf(c, k, typed) ==
    /\ k.calls = 0 => \A i \in DOMAIN typed : typed[i][1] # c
    /\ k.tool = "type" /\ k.calls = 1 =>
        /\ InTurn(c, typed)
        /\ k.result = "yes" => Has(c, Chunks, typed)
        /\ k.pc = "type" => /\ \A i \in DOMAIN typed : typed[i][1] = c => typed[i][2] <= k.n
                            /\ k.n = 0 \/ Has(c, k.n, typed)

\* Pages: requests are numbered up to n, and a log is of the response beside it.
PagesAgree(g, n) ==
    /\ g.req <= n
    /\ g.fetching <= g.req /\ g.out <= g.req
    /\ g.fetching # Absent => g.log = Absent /\ g.out \in {Absent, g.fetching}
    /\ g.log # Absent => g.out \in {Absent, g.log}

\* The daemon that runs under its name is whole.
FolderInv(f) == DaemonStays(f) /\ (f.up = "live" => f.live \in Whole)

GuestInv(g, n) == g \in GuestState /\ PagesAgree(g, n) /\ FolderInv(g.folder)

IInv ==
    /\ plan \in Plans /\ runs \in Nat /\ faults \in 0..plan.faults
    /\ client \in [Client -> ClientState]
    /\ \A c \in Client : client[c].calls <= plan.calls
    /\ GuestInv(guest, runs)
    /\ \A c \in Client : CallInv(client[c], guest) /\ TextOf(c, client[c], guest.typed)

-----------------------------------------------------------------------------
(* What others do *)

\* A step of the guest that takes nothing from a call in its course, but by menus and transfers.
Smooth(g, h) ==
    /\ g.req <= h.req
    /\ h.out \in {g.out, Absent, g.fetching}
    /\ h.fetching \in {g.fetching, Absent, g.req}
    /\ g.folder.mishap => h.folder.mishap

\* The menus and the transfers: what a call must be told of.
SameMenu(g, h) == h.last = Nobody \/ (h.hits = g.hits /\ h.last = g.last)
SameBinary(g, h) == h.folder.next \in {g.folder.next, "none", "since"}

\* A call is left where it is, but others may do what it asks for, or take something from it.
Marked(k, l) ==
    /\ l \in ClientState
    /\ l.pc = k.pc /\ l.tool = k.tool /\ l.calls = k.calls /\ l.result = k.result /\ l.n = k.n
    /\ l.item = k.item /\ l.before = k.before /\ l.nonce = k.nonce /\ l.page = k.page
    /\ l.read = k.read
    /\ k.done => l.done
    /\ k.blind => l.blind

\* What others do leaves a call with what it relies on.
LEMMA CallStays ==
    ASSUME NEW k, NEW l, NEW g \in GuestState, NEW h \in GuestState,
           CallInv(k, g), Marked(k, l), Smooth(g, h),
           SameMenu(g, h) \/ (k.tool = "menu" /\ k.pc # "idle" /\ h.last = l.item => l.done),
           SameBinary(g, h) \/ (k.pc = "swap" => l.blind /\ h.folder.mishap)
    PROVE  CallInv(l, h)
  <1>1. /\ l.pc = k.pc /\ l.tool = k.tool /\ l.calls = k.calls /\ l.result = k.result /\ l.n = k.n
        /\ l.item = k.item /\ l.before = k.before /\ l.nonce = k.nonce /\ l.page = k.page
        /\ l.read = k.read /\ l \in ClientState
    BY DEF Marked
  <1>2. (k.done => l.done) /\ (k.blind => l.blind)
    BY DEF Marked
  <1>3. InCourse(l)
    BY <1>1 DEF CallInv, InCourse
  <1>4. ChoiceIsMarked(l, h)
    <2> SUFFICES ASSUME l.pc \in {"arm", "trigger", "read", "after"}, ~l.blind,
                        h.hits > l.before, h.last = l.item
                 PROVE  l.done
      BY DEF ChoiceIsMarked
    <2>1. k.tool = "menu" /\ k.pc # "idle"
      BY <1>1 DEF CallInv, InCourse
    <2>2. l.item # Nobody
      BY <1>1, ToolsAssumption DEF ClientState, Nobody
    <2>3. CASE h.hits = g.hits /\ h.last = g.last
      BY <1>1, <1>2, <2>3 DEF CallInv, ChoiceIsMarked
    <2> QED
      BY <2>1, <2>2, <2>3 DEF SameMenu
  <1>5. PageIsAhead(l, h)
    <2>1. k \in ClientState /\ k.nonce \in Nat
      BY DEF CallInv, ClientState, Run
    <2>2. g.req \in Nat /\ h.req \in Nat /\ g.req <= h.req
      BY DEF GuestState, Run, Smooth
    <2>3. l.pc \in {"launch", "poll", "out"} => l.nonce <= h.req
      BY <1>1, <2>1, <2>2 DEF CallInv, PageIsAhead
    <2>4. l.pc = "out" => h.out = Absent \/ l.nonce <= h.out
      BY <1>1 DEF CallInv, PageIsAhead, Smooth
    <2>5. l.pc = "out" => h.fetching = Absent \/ l.nonce <= h.fetching
      BY <1>1 DEF CallInv, PageIsAhead, Smooth
    <2> QED
      BY <2>3, <2>4, <2>5 DEF PageIsAhead
  <1>6. BinaryIsStaged(l, h)
    BY <1>1, <1>2 DEF CallInv, BinaryIsStaged, Smooth, SameBinary
  <1>7. TargetIsProbed(l)
    BY <1>1, <1>2 DEF CallInv, TargetIsProbed
  <1>8. ReportIsTrue(l)
    BY <1>1, <1>2 DEF CallInv, ReportIsTrue, Real
  <1> QED
    BY <1>1, <1>3, <1>4, <1>5, <1>6, <1>7, <1>8 DEF CallInv

\* A call that is as it was, as far as texts go, has its text.
LEMMA TextStays ==
    ASSUME NEW c \in Client, NEW k, NEW l, NEW t, TextOf(c, k, t),
           l.pc = k.pc, l.tool = k.tool, l.calls = k.calls, l.result = k.result, l.n = k.n
    PROVE  TextOf(c, l, t)
  BY DEF TextOf

\* A call that does not type leaves the texts alone.
LEMMA TextIgnored ==
    ASSUME NEW c \in Client, NEW l, NEW t, l.calls > 0, l.tool # "type", l.calls \in Nat
    PROVE  TextOf(c, l, t)
  BY DEF TextOf

\* One client goes on, whatever it was that it did, if the others keep what they rely on.
LEMMA OneGoesOn ==
    ASSUME IInv, NEW c \in Client, plan' = plan, runs' \in Nat, faults' \in 0..plan.faults,
           client' \in [Client -> ClientState], client'[c].calls <= plan.calls,
           GuestInv(guest', runs'),
           CallInv(client'[c], guest'), TextOf(c, client'[c], guest'.typed),
           \A d \in Client \ {c} : /\ client'[d].calls = client[d].calls
                                   /\ CallInv(client'[d], guest')
                                   /\ TextOf(d, client'[d], guest'.typed)
    PROVE  IInv'
  <1>1. \A d \in Client : client'[d].calls <= plan'.calls
    BY DEF IInv
  <1>2. \A d \in Client : CallInv(client'[d], guest') /\ TextOf(d, client'[d], guest'.typed)
    OBVIOUS
  <1> QED
    BY <1>1, <1>2 DEF IInv

-----------------------------------------------------------------------------
(* Requests *)

\* What is paid for leaves the bound.
LEMMA PaysFits ==
    ASSUME IInv, NEW n \in Nat, Pays(n)
    PROVE  faults' \in 0..plan.faults
  <1>1. plan.faults \in Nat
    BY ToolsAssumption DEF IInv
  <1> QED
    BY <1>1 DEF IInv, Pays

\* A request costs nothing or one.
LEMMA CostFits ==
    ASSUME NEW f
    PROVE  Cost(f) \in Nat
  BY DEF Cost

\* An answer says that the request was carried out; without a daemon none is.
LEMMA FateIs ==
    ASSUME NEW g, NEW f \in Fates(g)
    PROVE  /\ f.ran \in BOOLEAN /\ f.answer \in {"reply", "none", "raised"}
           /\ Replied(f) => f.ran
           /\ f.ran => g.folder.up # "gone"
  <1>1. f \in Fate
    BY DEF Fates
  <1>2. f.ran \in BOOLEAN /\ f.answer \in {"reply", "none", "raised"} /\ (Replied(f) => f.ran)
    <2>1. CASE f = [ran |-> TRUE, answer |-> "reply"]
      <3>1. PICK r \in BOOLEAN : r /\ f = [ran |-> r, answer |-> "reply"]
        BY <2>1, Zenon
      <3> QED
        BY <3>1 DEF Replied
    <2>2. CASE f \in {[ran |-> r, answer |-> a] : r \in BOOLEAN, a \in {"none", "raised"}}
      BY <2>2 DEF Replied
    <2> QED
      BY <1>1, <2>1, <2>2 DEF Fate
  <1> QED
    BY <1>2 DEF Fates

Pcs == {"idle", "type", "adopt", "before", "arm", "trigger", "read", "after",
        "write", "launch", "poll", "out", "home", "stage", "swap", "boot",
        "probe", "send", "listdir", "files", "verb"}

\* All of a call but where it is and what it says.
Alike(k, l) ==
    /\ l.tool = k.tool /\ l.calls = k.calls /\ l.n = k.n /\ l.item = k.item /\ l.before = k.before
    /\ l.nonce = k.nonce /\ l.page = k.page /\ l.done = k.done /\ l.blind = k.blind /\ l.read = k.read

\* A call that goes on.
LEMMA ToIs ==
    ASSUME NEW k \in ClientState, NEW pc \in Pcs
    PROVE  To(k, pc) \in ClientState /\ To(k, pc).pc = pc /\ To(k, pc).result = k.result /\ Alike(k, To(k, pc))
  <1>1. To(k, pc) \in ClientState
    BY DEF To, ClientState, Pcs
  <1> QED
    BY <1>1 DEF To, ClientState, Alike

\* A call that is over relies on nothing any more.
LEMMA EndFits ==
    ASSUME NEW k \in ClientState, NEW result \in {"yes", "no", "unknown"}, NEW g,
           result = "yes" => Real(k)
    PROVE  CallInv(End(k, result), g) /\ Alike(k, End(k, result))
  <1> DEFINE l == End(k, result)
  <1>1. l \in ClientState
    BY DEF End, ClientState
  <1>2. l.pc = "idle" /\ l.result = result /\ Alike(k, l)
    BY DEF End, ClientState, Alike
  <1> HIDE DEF l
  <1>3. ReportIsTrue(l)
    BY <1>2 DEF ReportIsTrue, Real, Alike
  <1>4. InCourse(l)
    BY <1>2 DEF InCourse
  <1>5. ChoiceIsMarked(l, g) /\ PageIsAhead(l, g) /\ BinaryIsStaged(l, g) /\ TargetIsProbed(l)
    BY <1>2 DEF ChoiceIsMarked, PageIsAhead, BinaryIsStaged, TargetIsProbed
  <1>6. CallInv(l, g)
    BY <1>1, <1>3, <1>4, <1>5 DEF CallInv
  <1> QED
    BY <1>2, <1>6 DEF l

\* So is one that ends with a verdict.
LEMMA VerdictFits ==
    ASSUME NEW k \in ClientState, NEW ok \in BOOLEAN, NEW g, ok => Real(k)
    PROVE  CallInv(Verdict(k, ok), g) /\ Alike(k, Verdict(k, ok))
  <1>1. CASE ok
    BY <1>1, EndFits DEF Verdict
  <1>2. CASE ~ok
    BY <1>2, EndFits DEF Verdict
  <1> QED
    BY <1>1, <1>2

\* A client that does not type goes on; what it does to the guest takes nothing from the others.
LEMMA CallGoesOn ==
    ASSUME IInv, NEW c \in Client, NEW r, plan' = plan, runs' \in Nat, faults' \in 0..plan.faults,
           client' = [client EXCEPT ![c] = r],
           client[c].pc \notin {"idle", "type"}, r.tool = client[c].tool, r.calls = client[c].calls,
           CallInv(r, guest'), GuestInv(guest', runs'), guest'.typed = guest.typed,
           Smooth(guest, guest'), SameMenu(guest, guest'), SameBinary(guest, guest')
    PROVE  IInv'
  <1>1. client \in [Client -> ClientState] /\ r \in ClientState /\ CallInv(client[c], guest)
        /\ guest \in GuestState /\ guest' \in GuestState
    BY DEF IInv, CallInv, GuestInv
  <1>2. client' \in [Client -> ClientState] /\ client'[c] = r
        /\ \A d \in Client \ {c} : client'[d] = client[d]
    BY <1>1
  <1>3. r.calls > 0 /\ r.tool # "type" /\ r.calls \in Nat
    <2>1. client[c].calls > 0
      BY <1>1 DEF CallInv, InCourse
    <2>2. client[c].tool # "type"
      <3>1. client[c].pc \in Pcs \ {"idle", "type"}
        BY <1>1 DEF ClientState, Pcs
      <3> QED
        BY <1>1, <3>1 DEF CallInv, InCourse, Pcs
    <2> QED
      BY <1>1, <2>1, <2>2 DEF ClientState
  <1>4. TextOf(c, client'[c], guest'.typed)
    BY <1>2, <1>3, TextIgnored
  <1>5. ASSUME NEW d \in Client \ {c}
        PROVE  /\ client'[d].calls = client[d].calls /\ CallInv(client'[d], guest')
               /\ TextOf(d, client'[d], guest'.typed)
    <2>1. CallInv(client[d], guest) /\ TextOf(d, client[d], guest.typed) /\ client'[d] = client[d]
      BY <1>2 DEF IInv
    <2>2. Marked(client[d], client'[d])
      BY <1>1, <2>1 DEF Marked
    <2> QED
      BY <1>1, <2>1, <2>2, CallStays
  <1>6. client'[c].calls <= plan.calls
    BY <1>2 DEF IInv
  <1> QED
    BY <1>2, <1>4, <1>5, <1>6, OneGoesOn

\* It only looks.
LEMMA LookGoesOn ==
    ASSUME IInv, NEW c \in Client, NEW f, NEW r, Pays(Cost(f)), UNCHANGED <<plan, guest, runs>>,
           client' = [client EXCEPT ![c] = r],
           client[c].pc \notin {"idle", "type"}, r.tool = client[c].tool, r.calls = client[c].calls,
           CallInv(r, guest)
    PROVE  IInv'
  <1>1. faults' \in 0..plan.faults
    BY CostFits, PaysFits
  <1>2. GuestInv(guest', runs') /\ runs' \in Nat
    BY DEF IInv
  <1>3. Smooth(guest, guest') /\ SameMenu(guest, guest') /\ SameBinary(guest, guest')
    BY DEF Smooth, SameMenu, SameBinary, IInv, GuestInv, GuestState, Run
  <1> QED
    BY <1>1, <1>2, <1>3, CallGoesOn

\* A call in its course.
LEMMA InCall ==
    ASSUME IInv, NEW c \in Client, client[c].pc # "idle"
    PROVE  /\ client[c] \in ClientState /\ CallInv(client[c], guest) /\ InCourse(client[c])
           /\ client[c].calls > 0 /\ client[c].result = "none"
  BY DEF IInv, CallInv, InCourse

\* A request that fails, or finds that nothing is to be done, ends the call.
LEMMA LookEnds ==
    ASSUME IInv, NEW c \in Client, NEW f, Pays(Cost(f)), UNCHANGED <<plan, guest, runs>>,
           NEW result \in {"no", "unknown"}, client[c].pc \notin {"idle", "type"},
           client' = [client EXCEPT ![c] = End(client[c], result)]
    PROVE  IInv'
  <1> DEFINE r == End(client[c], result)
  <1>1. CallInv(r, guest) /\ Alike(client[c], r)
    BY InCall, EndFits
  <1>2. client' = [client EXCEPT ![c] = r]
    OBVIOUS
  <1> HIDE DEF r
  <1> QED
    BY <1>1, <1>2, LookGoesOn DEF Alike

\* A request after which the call goes on at pc.
LEMMA LookMoves ==
    ASSUME IInv, NEW c \in Client, NEW f, Pays(Cost(f)), UNCHANGED <<plan, guest, runs>>,
           NEW pc \in Pcs, client[c].pc \notin {"idle", "type"},
           client' = [client EXCEPT ![c] = To(client[c], pc)],
           CallInv(To(client[c], pc), guest)
    PROVE  IInv'
  <1> DEFINE r == To(client[c], pc)
  <1>1. CallInv(r, guest) /\ Alike(client[c], r)
    BY InCall, ToIs
  <1>2. client' = [client EXCEPT ![c] = r]
    OBVIOUS
  <1> HIDE DEF r
  <1> QED
    BY <1>1, <1>2, LookGoesOn DEF Alike

\* A call that goes on where it relies on nothing.
LEMMA PlainFits ==
    ASSUME NEW k \in ClientState, NEW g, NEW pc \in {"files", "before", "stage"},
           k.calls > 0, k.result = "none",
           pc = "files" => k.tool = "list", pc = "before" => k.tool = "menu",
           pc = "stage" => k.tool = "update"
    PROVE  CallInv(To(k, pc), g)
  <1> DEFINE r == To(k, pc)
  <1>1. r \in ClientState /\ r.pc = pc /\ r.result = "none" /\ Alike(k, r)
    BY ToIs DEF Pcs
  <1> HIDE DEF r
  <1>2. CallInv(r, g)
    BY <1>1 DEF CallInv, InCourse, ChoiceIsMarked, PageIsAhead, BinaryIsStaged, TargetIsProbed,
                ReportIsTrue, Alike
  <1> QED
    BY <1>2 DEF r

-----------------------------------------------------------------------------
(* The steps that only look *)

\* The tools of one request.
LEMMA VerbKeeps ==
    ASSUME IInv, NEW c \in Client, Verb(c)
    PROVE  IInv'
  <1>1. PICK f \in Fates(guest) :
            /\ Pays(Cost(f)) /\ UNCHANGED <<plan, guest, runs>>
            /\ client' = [client EXCEPT ![c] = Verdict([client[c] EXCEPT !.done = f.ran], Replied(f))]
    BY Zenon DEF Verb, Request, Same
  <1>2. client[c].pc = "verb" /\ client[c] \in ClientState /\ CallInv(client[c], guest)
    BY DEF Verb, IInv
  <1> DEFINE k == [client[c] EXCEPT !.done = f.ran]
             r == Verdict(k, Replied(f))
  <1>3. /\ k \in ClientState /\ k.tool = client[c].tool /\ k.calls = client[c].calls /\ k.done = f.ran
    BY <1>2, FateIs DEF ClientState
  <1>4. Replied(f) => Real(k)
    BY <1>2, <1>3, FateIs DEF CallInv, InCourse, Real
  <1>5. Replied(f) \in BOOLEAN
    BY DEF Replied
  <1> HIDE DEF k
  <1>6. CallInv(r, guest) /\ r.tool = client[c].tool /\ r.calls = client[c].calls
    BY <1>3, <1>4, <1>5, VerdictFits DEF Alike
  <1> HIDE DEF r
  <1>7. client' = [client EXCEPT ![c] = r]
    BY <1>1 DEF r, k
  <1> QED
    BY <1>1, <1>2, <1>6, <1>7, LookGoesOn

\* The listing of a folder through ToolServer.
LEMMA FilesKeeps ==
    ASSUME IInv, NEW c \in Client, Files(c)
    PROVE  IInv'
  <1>1. PICK f \in Fates(guest) :
            /\ Pays(Cost(f)) /\ UNCHANGED <<plan, guest, runs>>
            /\ client' = [client EXCEPT ![c] = Verdict([client[c] EXCEPT !.done = f.ran], Replied(f))]
    BY Zenon DEF Files, Request, Same
  <1>2. client[c].pc = "files" /\ client[c] \in ClientState /\ CallInv(client[c], guest)
    BY DEF Files, IInv
  <1> DEFINE k == [client[c] EXCEPT !.done = f.ran]
             r == Verdict(k, Replied(f))
  <1>3. /\ k \in ClientState /\ k.tool = client[c].tool /\ k.calls = client[c].calls /\ k.done = f.ran
    BY <1>2, FateIs DEF ClientState
  <1>4. Replied(f) => Real(k)
    BY <1>2, <1>3, FateIs DEF CallInv, InCourse, Real
  <1>5. Replied(f) \in BOOLEAN
    BY DEF Replied
  <1> HIDE DEF k
  <1>6. CallInv(r, guest) /\ r.tool = client[c].tool /\ r.calls = client[c].calls
    BY <1>3, <1>4, <1>5, VerdictFits DEF Alike
  <1> HIDE DEF r
  <1>7. client' = [client EXCEPT ![c] = r]
    BY <1>1 DEF r, k
  <1> QED
    BY <1>1, <1>2, <1>6, <1>7, LookGoesOn


\* The native listing.
LEMMA ListDirKeeps ==
    ASSUME IInv, NEW c \in Client, ListDir(c)
    PROVE  IInv'
  <1>1. PICK f \in Fates(guest) :
            /\ Pays(Cost(f)) /\ UNCHANGED <<plan, guest, runs>>
            /\ client' = [client EXCEPT ![c] =
                  IF Replied(f) THEN End([client[c] EXCEPT !.done = TRUE], "yes")
                  ELSE IF f.answer = "raised" THEN End(client[c], "no") ELSE To(client[c], "files")]
    BY Zenon DEF ListDir, Request, Same
  <1>2. client[c].pc = "listdir"
    BY DEF ListDir
  <1>3. client[c].tool = "list" /\ client[c].calls > 0 /\ client[c].result = "none"
        /\ client[c] \in ClientState
    BY <1>2, InCall DEF InCourse
  <1>4. CASE Replied(f)
    <2>1. PICK done \in BOOLEAN :
             done /\ client' = [client EXCEPT ![c] = End([client[c] EXCEPT !.done = done], "yes")]
      BY <1>1, <1>4, Zenon
    <2> DEFINE k == [client[c] EXCEPT !.done = done]
    <2>2. k \in ClientState /\ k.tool = "list" /\ k.calls = client[c].calls /\ k.done = done
      BY <1>3 DEF ClientState
    <2> HIDE DEF k
    <2>3. Real(k)
      BY <1>3, <2>1, <2>2 DEF Real
    <2>4. CallInv(End(k, "yes"), guest) /\ Alike(k, End(k, "yes"))
      BY <2>2, <2>3, EndFits
    <2>5. client' = [client EXCEPT ![c] = End(k, "yes")]
      BY <2>1 DEF k
    <2> QED
      BY <1>1, <1>2, <1>3, <2>2, <2>4, <2>5, LookGoesOn DEF Alike
  <1>5. CASE ~Replied(f) /\ f.answer = "raised"
    BY <1>1, <1>2, <1>5, LookEnds
  <1>6. CASE ~Replied(f) /\ f.answer # "raised"
    <2>1. CallInv(To(client[c], "files"), guest)
      BY <1>3, PlainFits
    <2> QED
      BY <1>1, <1>2, <1>6, <2>1, LookMoves DEF Pcs
  <1> QED
    BY <1>4, <1>5, <1>6

\* The patch is adopted.
LEMMA AdoptKeeps ==
    ASSUME IInv, NEW c \in Client, Adopt(c)
    PROVE  IInv'
  <1>1. PICK f \in Fates(guest) :
            /\ Pays(Cost(f)) /\ UNCHANGED <<plan, guest, runs>>
            /\ client' = [client EXCEPT ![c] = To(client[c], "before")]
    BY Zenon DEF Adopt, Request, Same
  <1>2. client[c].pc = "adopt"
    BY DEF Adopt
  <1>3. CallInv(To(client[c], "before"), guest)
    BY <1>2, InCall, PlainFits DEF InCourse
  <1> QED
    BY <1>1, <1>2, <1>3, LookMoves DEF Pcs

\* The count is read before the click, or is not.
LEMMA BeforeKeeps ==
    ASSUME IInv, NEW c \in Client, Before(c)
    PROVE  IInv'
  <1>1. PICK f \in Fates(guest) :
            /\ Pays(Cost(f)) /\ UNCHANGED <<plan, guest, runs>>
            /\ client' = [client EXCEPT ![c] =
                  IF Replied(f) THEN [To(client[c], "arm") EXCEPT !.before = guest'.hits]
                  ELSE [To(client[c], "arm") EXCEPT !.blind = TRUE]]
    BY Zenon DEF Before, Request, Same
  <1>2. client[c].pc = "before"
    BY DEF Before
  <1>3. client[c].tool = "menu" /\ client[c].calls > 0 /\ client[c].result = "none"
        /\ client[c] \in ClientState
    BY <1>2, InCall DEF InCourse
  <1>4. guest.hits \in Nat
    BY DEF IInv, GuestInv, GuestState
  <1> DEFINE k == To(client[c], "arm")
  <1>5. k \in ClientState /\ k.pc = "arm" /\ k.result = "none" /\ Alike(client[c], k)
    BY <1>3, ToIs DEF Pcs
  <1>6. PICK before \in Nat, blind \in BOOLEAN :
            /\ blind \/ before = guest.hits
            /\ client' = [client EXCEPT ![c] = [k EXCEPT !.before = before, !.blind = blind]]
    <2> HIDE DEF k
    <2>1. CASE Replied(f)
      <3>1. client' = [client EXCEPT ![c] = [k EXCEPT !.before = guest.hits]]
        BY <1>1, <2>1 DEF k
      <3>2. [k EXCEPT !.before = guest.hits] = [k EXCEPT !.before = guest.hits, !.blind = k.blind]
        BY <1>5 DEF ClientState
      <3>3. k.blind \in BOOLEAN
        BY <1>5 DEF ClientState
      <3> QED
        BY <1>4, <3>1, <3>2, <3>3
    <2>2. CASE ~Replied(f)
      <3>1. PICK blind \in BOOLEAN : blind /\ client' = [client EXCEPT ![c] = [k EXCEPT !.blind = blind]]
        BY <1>1, <2>2, Zenon DEF k
      <3>2. [k EXCEPT !.blind = blind] = [k EXCEPT !.before = k.before, !.blind = blind]
        BY <1>5 DEF ClientState
      <3>3. k.before \in Nat
        BY <1>5 DEF ClientState
      <3> QED
        BY <3>1, <3>2, <3>3
    <2> QED
      BY <2>1, <2>2
  <1> HIDE DEF k
  <1> DEFINE r == [k EXCEPT !.before = before, !.blind = blind]
  <1>7. /\ r \in ClientState /\ r.pc = "arm" /\ r.result = "none" /\ r.tool = "menu"
        /\ r.calls = client[c].calls /\ r.before = before /\ r.blind = blind
    BY <1>3, <1>5 DEF ClientState, Alike
  <1>8. client' = [client EXCEPT ![c] = r]
    BY <1>6
  <1> HIDE DEF r
  <1>9. CallInv(r, guest)
    BY <1>3, <1>4, <1>6, <1>7 DEF CallInv, InCourse, ChoiceIsMarked, PageIsAhead, BinaryIsStaged,
                                  TargetIsProbed, ReportIsTrue
  <1> QED
    BY <1>1, <1>2, <1>3, <1>7, <1>8, <1>9, LookGoesOn

\* It looks between the clicks.
LEMMA ReadKeeps ==
    ASSUME IInv, NEW c \in Client, Read(c)
    PROVE  IInv'
  <1>1. PICK f \in Fates(guest) :
            /\ Pays(Cost(f)) /\ UNCHANGED <<plan, guest, runs>>
            /\ client' = [client EXCEPT ![c] =
                  IF client[c].n = 0 \/ (Replied(f) /\ guest'.hits > client[c].before)
                  THEN To(client[c], "after") ELSE To(client[c], "trigger")]
    BY Zenon DEF Read, Request, Same
  <1>2. client[c].pc = "read"
    BY DEF Read
  <1>3. client[c].tool = "menu" /\ client[c].calls > 0 /\ client[c].result = "none"
        /\ client[c] \in ClientState /\ ChoiceIsMarked(client[c], guest)
    BY <1>2, InCall DEF InCourse, CallInv
  <1>4. PICK pc \in {"after", "trigger"} :
            /\ pc = "trigger" => client[c].n # 0
            /\ client' = [client EXCEPT ![c] = To(client[c], pc)]
    BY <1>1
  <1> DEFINE r == To(client[c], pc)
  <1>5. r \in ClientState /\ r.pc = pc /\ r.result = "none" /\ Alike(client[c], r)
    BY <1>3, ToIs DEF Pcs
  <1> HIDE DEF r
  <1>6. ChoiceIsMarked(r, guest)
    BY <1>2, <1>3, <1>5 DEF ChoiceIsMarked, Alike
  <1>7. InCourse(r)
    BY <1>3, <1>4, <1>5 DEF InCourse, Alike, ClientState
  <1>8. CallInv(r, guest)
    BY <1>5, <1>6, <1>7 DEF CallInv, PageIsAhead, BinaryIsStaged, TargetIsProbed, ReportIsTrue
  <1> QED
    BY <1>1, <1>2, <1>4, <1>8, LookMoves DEF Pcs, r

\* The verdict of a choice from the menu.
LEMMA AfterKeeps ==
    ASSUME IInv, NEW c \in Client, After(c)
    PROVE  IInv'
  <1> DEFINE ok(f) == Replied(f) /\ guest.hits > client[c].before /\ guest.last = client[c].item
  <1>1. PICK f \in Fates(guest) :
            /\ Pays(Cost(f)) /\ UNCHANGED <<plan, guest, runs>>
            /\ client' = [client EXCEPT ![c] =
                  Verdict(client[c], Replied(f) /\ guest'.hits > client[c].before
                                     /\ guest'.last = client[c].item)]
    BY Zenon DEF After, Request, Same
  <1>2. client[c].pc = "after"
    BY DEF After
  <1>3. client[c].tool = "menu" /\ client[c].calls > 0 /\ client[c] \in ClientState
        /\ ChoiceIsMarked(client[c], guest)
    BY <1>2, InCall DEF InCourse, CallInv
  <1>4. client' = [client EXCEPT ![c] = Verdict(client[c], ok(f))]
    BY <1>1
  <1>5. ok(f) => Real(client[c])
    BY <1>2, <1>3 DEF ChoiceIsMarked, Real
  <1>6. ok(f) \in BOOLEAN
    BY DEF Replied
  <1> HIDE DEF ok
  <1>7. CallInv(Verdict(client[c], ok(f)), guest) /\ Alike(client[c], Verdict(client[c], ok(f)))
    BY <1>3, <1>5, <1>6, VerdictFits
  <1> QED
    BY <1>1, <1>2, <1>4, <1>7, LookGoesOn DEF Alike

\* The log is awaited that carries the nonce.
LEMMA PollKeeps ==
    ASSUME IInv, NEW c \in Client, Poll(c)
    PROVE  IInv'
  <1>1. PICK f \in Fates(guest) :
            /\ Pays(Cost(f)) /\ UNCHANGED <<plan, guest, runs>>
            /\ client' = [client EXCEPT ![c] =
                  IF Replied(f) /\ guest'.log = client[c].nonce THEN To(client[c], "out")
                  ELSE IF f.answer = "raised" \/ client[c].n = 1 THEN End(client[c], "no")
                  ELSE [client[c] EXCEPT !.n = client[c].n - 1]]
    BY Zenon DEF Poll, Request, Same
  <1>2. client[c].pc = "poll"
    BY DEF Poll
  <1>3. /\ client[c].tool = "https" /\ client[c].calls > 0 /\ client[c].result = "none"
        /\ client[c] \in ClientState /\ client[c].n > 0 /\ client[c].nonce <= guest.req
    BY <1>2, InCall DEF InCourse, CallInv, PageIsAhead
  <1>4. CASE Replied(f) /\ guest'.log = client[c].nonce
    <2> DEFINE r == To(client[c], "out")
    <2>1. client' = [client EXCEPT ![c] = r]
      BY <1>1, <1>4
    <2>2. r \in ClientState /\ r.pc = "out" /\ r.result = "none" /\ Alike(client[c], r)
      BY <1>3, ToIs DEF Pcs
    <2> HIDE DEF r
    <2>3. guest.log = client[c].nonce /\ client[c].nonce \in Nat
      BY <1>1, <1>3, <1>4 DEF ClientState, Run
    <2>4. guest.fetching = Absent /\ guest.out \in {Absent, guest.log}
      BY <2>3 DEF IInv, GuestInv, PagesAgree, Absent
    <2>5. PageIsAhead(r, guest)
      BY <1>3, <2>2, <2>3, <2>4 DEF PageIsAhead, Alike
    <2>6. CallInv(r, guest)
      BY <1>3, <2>2, <2>5 DEF CallInv, InCourse, ChoiceIsMarked, BinaryIsStaged, TargetIsProbed,
                              ReportIsTrue, Alike
    <2> QED
      BY <1>1, <1>2, <2>1, <2>2, <2>6, LookGoesOn DEF Alike
  <1>5. CASE ~(Replied(f) /\ guest'.log = client[c].nonce) /\ (f.answer = "raised" \/ client[c].n = 1)
    <2>1. client' = [client EXCEPT ![c] = End(client[c], "no")]
      BY <1>1, <1>5
    <2> QED
      BY <1>1, <1>2, <2>1, LookEnds
  <1>6. CASE /\ ~(Replied(f) /\ guest'.log = client[c].nonce)
             /\ ~(f.answer = "raised" \/ client[c].n = 1)
    <2> DEFINE n == client[c].n - 1
               r == [client[c] EXCEPT !.n = n]
    <2>1. client' = [client EXCEPT ![c] = r]
      BY <1>1, <1>6
    <2>2. n \in Nat /\ n > 0
      BY <1>3, <1>6 DEF ClientState
    <2> HIDE DEF n
    <2>3. /\ r \in ClientState /\ r.pc = "poll" /\ r.result = "none" /\ r.tool = "https" /\ r.n = n
          /\ r.calls = client[c].calls /\ r.nonce = client[c].nonce
      BY <1>2, <1>3, <2>2 DEF ClientState
    <2> HIDE DEF r
    <2>4. CallInv(r, guest)
      BY <1>3, <2>2, <2>3 DEF CallInv, InCourse, ChoiceIsMarked, PageIsAhead, BinaryIsStaged,
                              TargetIsProbed, ReportIsTrue
    <2> QED
      BY <1>1, <1>2, <1>3, <2>1, <2>3, <2>4, LookGoesOn
  <1> QED
    BY <1>4, <1>5, <1>6

\* The page is read, and is not older than the request.
LEMMA ReadOutKeeps ==
    ASSUME IInv, NEW c \in Client, ReadOut(c)
    PROVE  IInv'
  <1>1. PICK headers \in BOOLEAN, f \in Fates(guest) :
            /\ Pays(Cost(f)) /\ UNCHANGED <<plan, guest, runs>>
            /\ client' = [client EXCEPT ![c] =
                  Verdict([client[c] EXCEPT !.page = guest'.out],
                          Replied(f) /\ guest'.out # Absent /\ headers)]
    BY Zenon DEF ReadOut, Request, Same
  <1>2. client[c].pc = "out"
    BY DEF ReadOut
  <1>3. /\ client[c].tool = "https" /\ client[c].calls > 0 /\ client[c] \in ClientState
        /\ guest.out = Absent \/ client[c].nonce <= guest.out
    BY <1>2, InCall DEF InCourse, CallInv, PageIsAhead
  <1>4. guest.out \in Run \union {Absent}
    BY DEF IInv, GuestInv, GuestState
  <1> DEFINE k == [client[c] EXCEPT !.page = guest.out]
             ok == Replied(f) /\ guest.out # Absent /\ headers
  <1>5. client' = [client EXCEPT ![c] = Verdict(k, ok)]
    BY <1>1
  <1>6. /\ k \in ClientState /\ k.tool = "https" /\ k.calls = client[c].calls /\ k.page = guest.out
        /\ k.nonce = client[c].nonce
    BY <1>3, <1>4 DEF ClientState
  <1> HIDE DEF k
  <1>7. client[c].nonce \in Nat
    BY <1>3 DEF ClientState, Run
  <1>8. ok => Real(k)
    BY <1>3, <1>4, <1>6, <1>7 DEF Real, Run, Absent
  <1>9. ok \in BOOLEAN
    BY DEF Replied
  <1> HIDE DEF ok
  <1>10. CallInv(Verdict(k, ok), guest) /\ Alike(k, Verdict(k, ok))
    BY <1>6, <1>8, <1>9, VerdictFits
  <1> QED
    BY <1>1, <1>2, <1>3, <1>5, <1>6, <1>10, LookGoesOn DEF Alike

\* The daemon's folder is asked for.
LEMMA HomeKeeps ==
    ASSUME IInv, NEW c \in Client, Home(c)
    PROVE  IInv'
  <1>1. PICK f \in Fates(guest) :
            /\ Pays(Cost(f)) /\ UNCHANGED <<plan, guest, runs>>
            /\ client' = [client EXCEPT ![c] =
                  IF Replied(f) THEN To(client[c], "stage") ELSE End(client[c], "no")]
    BY Zenon DEF Home, Request, Same
  <1>2. client[c].pc = "home"
    BY DEF Home
  <1>3. CallInv(To(client[c], "stage"), guest)
    BY <1>2, InCall, PlainFits DEF InCourse
  <1>4. CASE Replied(f)
    BY <1>1, <1>2, <1>3, <1>4, LookMoves DEF Pcs
  <1>5. CASE ~Replied(f)
    BY <1>1, <1>2, <1>5, LookEnds
  <1> QED
    BY <1>4, <1>5

\* The target is asked whether it reads its events.
LEMMA ProbeKeeps ==
    ASSUME IInv, NEW c \in Client, Probe(c)
    PROVE  IInv'
  <1> DEFINE reads(f) == f.ran /\ guest.front = "reads"
             blind(f) == ~Replied(f) \/ guest.front = "absent"
             r(f) == [To(client[c], "send") EXCEPT !.read = reads(f), !.blind = blind(f)]
  <1>1. PICK f \in Fates(guest) :
            /\ Pays(Cost(f)) /\ UNCHANGED <<plan, guest, runs>>
            /\ client' = [client EXCEPT ![c] =
                  IF f.answer = "raised" THEN End(client[c], "no")
                  ELSE IF Replied(f) /\ guest'.front = "stuck" THEN End(client[c], "unknown")
                  ELSE [To(client[c], "send") EXCEPT !.read = f.ran /\ guest'.front = "reads",
                                                     !.blind = ~Replied(f) \/ guest'.front = "absent"]]
    BY Zenon DEF Probe, Request, Same
  <1>2. client[c].pc = "probe"
    BY DEF Probe
  <1>3. CASE f.answer = "raised"
    BY <1>1, <1>2, <1>3, LookEnds
  <1>4. CASE f.answer # "raised" /\ Replied(f) /\ guest'.front = "stuck"
    BY <1>1, <1>2, <1>4, LookEnds
  <1>5. CASE f.answer # "raised" /\ ~(Replied(f) /\ guest'.front = "stuck")
    <2>1. client' = [client EXCEPT ![c] = r(f)]
      BY <1>1, <1>5
    <2>2. reads(f) \in BOOLEAN /\ blind(f) \in BOOLEAN
      BY FateIs DEF Replied
    <2>3. reads(f) \/ blind(f)
      <3>1. guest.front \in {"reads", "stuck", "absent"}
        BY DEF IInv, GuestInv, GuestState
      <3> QED
        BY <1>1, <1>5, <3>1, FateIs
    <2> HIDE DEF reads, blind
    <2>4. /\ client[c].tool = "event" /\ client[c].calls > 0 /\ client[c].result = "none"
          /\ client[c] \in ClientState
      BY <1>2, InCall DEF InCourse
    <2> DEFINE k == To(client[c], "send")
    <2>5. k \in ClientState /\ k.pc = "send" /\ k.result = "none" /\ Alike(client[c], k)
      BY <2>4, ToIs DEF Pcs
    <2> HIDE DEF k
    <2>6. /\ r(f) \in ClientState /\ r(f).pc = "send" /\ r(f).result = "none" /\ r(f).tool = "event"
          /\ r(f).calls = client[c].calls /\ r(f).read = reads(f) /\ r(f).blind = blind(f)
      <3>1. r(f) = [k EXCEPT !.read = reads(f), !.blind = blind(f)]
        BY DEF k
      <3> HIDE DEF r
      <3>2. r(f) \in ClientState
        <4> DEFINE l == [k EXCEPT !.read = reads(f)]
        <4>1. l \in ClientState
          BY <2>2, <2>5 DEF ClientState
        <4>2. r(f) = [l EXCEPT !.blind = blind(f)]
          BY <3>1, Zenon
        <4> HIDE DEF l
        <4> QED
          BY <2>2, <4>1, <4>2 DEF ClientState
      <3>3. r(f).read = reads(f) /\ r(f).blind = blind(f)
        BY SMTT(30), <2>5, <3>1 DEF ClientState
      <3>4. r(f).pc = k.pc /\ r(f).result = k.result /\ r(f).tool = k.tool /\ r(f).calls = k.calls
        BY SMTT(30), <2>5, <3>1 DEF ClientState
      <3> QED
        BY <2>4, <2>5, <3>2, <3>3, <3>4 DEF Alike
    <2> HIDE DEF r
    <2>7. CallInv(r(f), guest)
      BY <2>3, <2>4, <2>6 DEF CallInv, InCourse, ChoiceIsMarked, PageIsAhead, BinaryIsStaged,
                              TargetIsProbed, ReportIsTrue
    <2> QED
      BY <1>1, <1>2, <2>1, <2>4, <2>6, <2>7, LookGoesOn
  <1> QED
    BY <1>3, <1>4, <1>5

\* The event is sent.
LEMMA SendKeeps ==
    ASSUME IInv, NEW c \in Client, Send(c)
    PROVE  IInv'
  <1> DEFINE there == guest.front # "absent"
             k(f) == [client[c] EXCEPT !.done = f.ran /\ there]
             ok(f) == Replied(f) /\ there
  <1>1. PICK f \in Fates(guest) :
            /\ Pays(Cost(f)) /\ UNCHANGED <<plan, guest, runs>>
            /\ client' = [client EXCEPT ![c] = Verdict(k(f), ok(f))]
    BY Zenon DEF Send, Request, Same
  <1>2. client[c].pc = "send"
    BY DEF Send
  <1>3. /\ client[c].tool = "event" /\ client[c].calls > 0 /\ client[c] \in ClientState
        /\ client[c].read \/ client[c].blind
    BY <1>2, InCall DEF InCourse, CallInv, TargetIsProbed
  <1> DEFINE done == f.ran /\ there
  <1>4. done \in BOOLEAN /\ ok(f) \in BOOLEAN /\ (ok(f) => done)
    BY FateIs DEF Replied
  <1>5. k(f) = [client[c] EXCEPT !.done = done]
    OBVIOUS
  <1> HIDE DEF done, ok, k
  <1>6. /\ k(f) \in ClientState /\ k(f).tool = "event" /\ k(f).calls = client[c].calls
        /\ k(f).read = client[c].read /\ k(f).blind = client[c].blind /\ k(f).done = done
    BY <1>3, <1>4, <1>5 DEF ClientState
  <1>7. ok(f) => Real(k(f))
    BY <1>3, <1>4, <1>6 DEF Real
  <1>8. CallInv(Verdict(k(f), ok(f)), guest) /\ Alike(k(f), Verdict(k(f), ok(f)))
    BY <1>4, <1>6, <1>7, VerdictFits
  <1> QED
    BY <1>1, <1>2, <1>3, <1>6, <1>8, LookGoesOn DEF Alike

-----------------------------------------------------------------------------
(* The steps that change the guest *)

\* What a step may do to the guest, if no menu is opened and no binary spoiled.
Gentle(g, h) == h.typed = g.typed /\ Smooth(g, h) /\ SameMenu(g, h) /\ SameBinary(g, h)

\* All that the pages and the folder are.
SamePages(g, h) == h.req = g.req /\ h.fetching = g.fetching /\ h.out = g.out /\ h.log = g.log

\* Where pages and folder are as they were, nothing is taken.
LEMMA PagesKept ==
    ASSUME NEW g, NEW n, NEW h \in GuestState, GuestInv(g, n), SamePages(g, h), h.folder = g.folder
    PROVE  GuestInv(h, n) /\ Smooth(g, h) /\ SameBinary(g, h)
  <1>1. PagesAgree(h, n)
    BY DEF GuestInv, PagesAgree, SamePages
  <1>2. h.req <= h.req
    BY DEF GuestState, Run
  <1> QED
    BY <1>1, <1>2 DEF GuestInv, Smooth, SameBinary, SamePages

\* A step of the guest alone.
LEMMA GuestGoesOn ==
    ASSUME IInv, UNCHANGED <<plan, client, runs>>, faults' \in 0..plan.faults,
           GuestInv(guest', runs), Gentle(guest, guest')
    PROVE  IInv'
  <1>1. guest \in GuestState /\ guest' \in GuestState /\ runs' \in Nat
    BY DEF IInv, GuestInv
  <1>2. ASSUME NEW d \in Client
        PROVE  CallInv(client'[d], guest') /\ TextOf(d, client'[d], guest'.typed)
    <2>1. CallInv(client[d], guest) /\ TextOf(d, client[d], guest.typed) /\ client'[d] = client[d]
          /\ client[d] \in ClientState
      BY DEF IInv
    <2>2. Marked(client[d], client'[d])
      BY <2>1 DEF Marked
    <2> QED
      BY <1>1, <2>1, <2>2, CallStays DEF Gentle
  <1> QED
    BY <1>1, <1>2 DEF IInv

\* A call that fails while it changes the guest.
LEMMA StepEnds ==
    ASSUME IInv, NEW c \in Client, plan' = plan, runs' \in Nat, faults' \in 0..plan.faults,
           client[c].pc \notin {"idle", "type"}, NEW result \in {"no", "unknown"},
           client' = [client EXCEPT ![c] = End(client[c], result)],
           GuestInv(guest', runs'), Gentle(guest, guest')
    PROVE  IInv'
  <1> DEFINE r == End(client[c], result)
  <1>1. CallInv(r, guest') /\ Alike(client[c], r)
    BY InCall, EndFits
  <1>2. client' = [client EXCEPT ![c] = r]
    OBVIOUS
  <1> HIDE DEF r
  <1> QED
    BY <1>1, <1>2, CallGoesOn DEF Alike, Gentle

\* Nothing is done.
LEMMA GentleStays ==
    ASSUME IInv
    PROVE  GuestInv(guest, runs) /\ Gentle(guest, guest) /\ guest \in GuestState
  BY DEF IInv, Gentle, Smooth, SameMenu, SameBinary, GuestInv, GuestState, Run

\* The patch is armed with the item.
LEMMA ArmKeeps ==
    ASSUME IInv, NEW c \in Client, Arm(c)
    PROVE  IInv'
  <1>1. PICK f \in Fates(guest) :
            /\ Pays(Cost(f)) /\ UNCHANGED <<plan, runs>>
            /\ guest' = IF f.ran THEN [guest EXCEPT !.armed = client[c].item] ELSE guest
            /\ client' = [client EXCEPT ![c] =
                  IF Replied(f) THEN [To(client[c], "trigger") EXCEPT !.n = 2] ELSE End(client[c], "no")]
    BY Zenon DEF Arm, Request
  <1>2. client[c].pc = "arm"
    BY DEF Arm
  <1>3. /\ client[c].tool = "menu" /\ client[c].calls > 0 /\ client[c].result = "none"
        /\ client[c] \in ClientState /\ ChoiceIsMarked(client[c], guest)
    BY <1>2, InCall DEF InCourse, CallInv
  <1>4. faults' \in 0..plan.faults /\ runs' \in Nat /\ plan' = plan
    BY <1>1, CostFits, PaysFits DEF IInv
  <1>5. /\ GuestInv(guest', runs') /\ Gentle(guest, guest')
        /\ guest'.hits = guest.hits /\ guest'.last = guest.last
    <2>1. CASE f.ran
      <3>1. guest' \in GuestState /\ SamePages(guest, guest') /\ guest'.folder = guest.folder
            /\ guest'.hits = guest.hits /\ guest'.last = guest.last /\ guest'.typed = guest.typed
        BY <1>1, <1>3, <2>1, GentleStays DEF GuestState, SamePages, ClientState
      <3> QED
        BY <1>1, <3>1, GentleStays, PagesKept DEF Gentle, SameMenu
    <2>2. CASE ~f.ran
      BY <1>1, <2>2, GentleStays
    <2> QED
      BY <2>1, <2>2
  <1>6. CASE Replied(f)
    <2> DEFINE k == To(client[c], "trigger")
    <2>1. k \in ClientState /\ k.pc = "trigger" /\ k.result = "none" /\ Alike(client[c], k)
      BY <1>3, ToIs DEF Pcs
    <2> DEFINE r == [k EXCEPT !.n = 2]
    <2>2. client' = [client EXCEPT ![c] = r]
      BY <1>1, <1>6
    <2> HIDE DEF k
    <2>3. /\ r \in ClientState /\ r.pc = "trigger" /\ r.result = "none" /\ r.tool = "menu"
          /\ r.calls = client[c].calls /\ r.n = 2 /\ r.item = client[c].item
          /\ r.before = client[c].before /\ r.done = client[c].done /\ r.blind = client[c].blind
      BY <1>3, <2>1 DEF ClientState, Alike
    <2> HIDE DEF r
    <2>4. ChoiceIsMarked(r, guest')
      BY <1>2, <1>3, <1>5, <2>3 DEF ChoiceIsMarked
    <2>5. CallInv(r, guest')
      BY <1>3, <2>3, <2>4 DEF CallInv, InCourse, PageIsAhead, BinaryIsStaged, TargetIsProbed, ReportIsTrue
    <2> QED
      BY <1>2, <1>3, <1>4, <1>5, <2>2, <2>3, <2>5, CallGoesOn DEF Gentle
  <1>7. CASE ~Replied(f)
    <2>1. client' = [client EXCEPT ![c] = End(client[c], "no")]
      BY <1>1, <1>7
    <2> QED
      BY <1>2, <1>4, <1>5, <2>1, StepEnds
  <1> QED
    BY <1>6, <1>7

\* The request for a page is written, under a number of its own.
LEMMA WriteReqKeeps ==
    ASSUME IInv, NEW c \in Client, WriteReq(c)
    PROVE  IInv'
  <1> DEFINE nonce == runs + 1
  <1>1. PICK f \in Fates(guest) :
            /\ Pays(Cost(f)) /\ plan' = plan /\ runs' = nonce
            /\ guest' = IF f.ran THEN [guest EXCEPT !.req = nonce] ELSE guest
            /\ client' = [client EXCEPT ![c] =
                  IF Replied(f) THEN [To(client[c], "launch") EXCEPT !.nonce = nonce]
                  ELSE End(client[c], "no")]
    BY Zenon DEF WriteReq
  <1>2. client[c].pc = "write"
    BY DEF WriteReq
  <1>3. /\ client[c].tool = "https" /\ client[c].calls > 0 /\ client[c].result = "none"
        /\ client[c] \in ClientState
    BY <1>2, InCall DEF InCourse, CallInv
  <1>4. faults' \in 0..plan.faults /\ nonce \in Nat /\ runs \in Nat /\ nonce > runs
    BY <1>1, CostFits, PaysFits DEF IInv
  <1> HIDE DEF nonce
  <1>5. /\ GuestInv(guest', runs') /\ Gentle(guest, guest') /\ (f.ran => guest'.req = nonce)
    <2>1. CASE f.ran
      <3>1. /\ guest' \in GuestState /\ guest'.folder = guest.folder /\ guest'.typed = guest.typed
            /\ guest'.hits = guest.hits /\ guest'.last = guest.last
            /\ guest'.fetching = guest.fetching /\ guest'.out = guest.out /\ guest'.log = guest.log
            /\ guest'.req = nonce
        BY <1>1, <1>4, <2>1, GentleStays DEF GuestState, Run
      <3>2. PagesAgree(guest, runs) /\ guest \in GuestState
        BY GentleStays DEF GuestInv
      <3>3. PagesAgree(guest', nonce) /\ guest.req <= guest'.req
        BY <1>4, <3>1, <3>2 DEF PagesAgree, GuestState, Run, Absent
      <3> QED
        BY <1>1, <3>1, <3>3, GentleStays DEF Gentle, SameMenu, Smooth, SameBinary, GuestInv
    <2>2. CASE ~f.ran
      <3>1. PagesAgree(guest, runs) /\ guest \in GuestState
        BY GentleStays DEF GuestInv
      <3>2. PagesAgree(guest, nonce)
        BY <1>4, <3>1 DEF PagesAgree, GuestState, Run
      <3> QED
        BY <1>1, <2>2, <3>2, GentleStays DEF GuestInv
    <2> QED
      BY <2>1, <2>2
  <1>6. CASE Replied(f)
    <2> DEFINE k == To(client[c], "launch")
    <2>1. k \in ClientState /\ k.pc = "launch" /\ k.result = "none" /\ Alike(client[c], k)
      BY <1>3, ToIs DEF Pcs
    <2> DEFINE r == [k EXCEPT !.nonce = nonce]
    <2>2. client' = [client EXCEPT ![c] = r]
      BY <1>1, <1>6
    <2> HIDE DEF k
    <2>3. /\ r \in ClientState /\ r.pc = "launch" /\ r.result = "none" /\ r.tool = "https"
          /\ r.calls = client[c].calls /\ r.nonce = nonce
      BY <1>3, <1>4, <2>1 DEF ClientState, Alike, Run
    <2> HIDE DEF r
    <2>4. PageIsAhead(r, guest')
      BY <1>4, <1>5, <1>6, <2>3, FateIs DEF PageIsAhead
    <2>5. CallInv(r, guest')
      BY <1>3, <2>3, <2>4 DEF CallInv, InCourse, ChoiceIsMarked, BinaryIsStaged, TargetIsProbed, ReportIsTrue
    <2> QED
      BY <1>1, <1>2, <1>3, <1>4, <1>5, <2>2, <2>3, <2>5, CallGoesOn DEF Gentle
  <1>7. CASE ~Replied(f)
    <2>1. client' = [client EXCEPT ![c] = End(client[c], "no")]
      BY <1>1, <1>7
    <2> QED
      BY <1>1, <1>2, <1>4, <1>5, <2>1, StepEnds
  <1> QED
    BY <1>6, <1>7

\* The application is launched, and fetches what was last asked for.
LEMMA LaunchGetKeeps ==
    ASSUME IInv, NEW c \in Client, LaunchGet(c)
    PROVE  IInv'
  <1>1. PICK f \in Fates(guest) :
            /\ Pays(Cost(f)) /\ UNCHANGED <<plan, runs>>
            /\ guest' = IF f.ran
                        THEN IF guest.fetching # Absent THEN guest
                             ELSE [guest EXCEPT !.fetching = guest.req, !.out = Absent, !.log = Absent]
                        ELSE guest
            /\ client' = [client EXCEPT ![c] =
                  IF Replied(f) THEN [To(client[c], "poll") EXCEPT !.n = MaxPolls] ELSE End(client[c], "no")]
    BY Zenon DEF LaunchGet, Request
  <1>2. client[c].pc = "launch"
    BY DEF LaunchGet
  <1>3. /\ client[c].tool = "https" /\ client[c].calls > 0 /\ client[c].result = "none"
        /\ client[c] \in ClientState /\ client[c].nonce <= guest.req
    BY <1>2, InCall DEF InCourse, CallInv, PageIsAhead
  <1>4. faults' \in 0..plan.faults /\ runs' \in Nat /\ plan' = plan
    BY <1>1, CostFits, PaysFits DEF IInv
  <1>5. GuestInv(guest', runs') /\ Gentle(guest, guest') /\ guest'.req = guest.req
    <2>1. CASE guest' = guest
      BY <1>1, <2>1, GentleStays
    <2>2. CASE /\ guest.fetching = Absent
               /\ guest' = [guest EXCEPT !.fetching = guest.req, !.out = Absent, !.log = Absent]
      <3>1. /\ guest' \in GuestState /\ guest'.folder = guest.folder /\ guest'.typed = guest.typed
            /\ guest'.hits = guest.hits /\ guest'.last = guest.last
            /\ guest'.fetching = guest.req /\ guest'.out = Absent /\ guest'.log = Absent
            /\ guest'.req = guest.req
        BY <2>2, GentleStays DEF GuestState
      <3>2. PagesAgree(guest, runs) /\ guest.req \in Nat
        BY GentleStays DEF GuestInv, GuestState, Run
      <3>3. PagesAgree(guest', runs) /\ guest.req <= guest'.req
        BY <3>1, <3>2 DEF PagesAgree, Absent
      <3> QED
        BY <1>1, <3>1, <3>3, GentleStays DEF Gentle, SameMenu, Smooth, SameBinary, GuestInv
    <2> QED
      BY <1>1, <2>1, <2>2
  <1>6. CASE Replied(f)
    <2> DEFINE k == To(client[c], "poll")
    <2>1. k \in ClientState /\ k.pc = "poll" /\ k.result = "none" /\ Alike(client[c], k)
      BY <1>3, ToIs DEF Pcs
    <2> DEFINE r == [k EXCEPT !.n = MaxPolls]
    <2>2. client' = [client EXCEPT ![c] = r]
      BY <1>1, <1>6
    <2> HIDE DEF k
    <2>3. /\ r \in ClientState /\ r.pc = "poll" /\ r.result = "none" /\ r.tool = "https"
          /\ r.calls = client[c].calls /\ r.nonce = client[c].nonce /\ r.n = MaxPolls
      BY <1>3, <2>1, ToolsAssumption DEF ClientState, Alike
    <2> HIDE DEF r
    <2>4. CallInv(r, guest')
      BY <1>3, <1>5, <2>3, ToolsAssumption DEF CallInv, InCourse, ChoiceIsMarked, PageIsAhead,
                                               BinaryIsStaged, TargetIsProbed, ReportIsTrue
    <2> QED
      BY <1>1, <1>2, <1>3, <1>4, <1>5, <2>2, <2>3, <2>4, CallGoesOn DEF Gentle
  <1>7. CASE ~Replied(f)
    <2>1. client' = [client EXCEPT ![c] = End(client[c], "no")]
      BY <1>1, <1>7
    <2> QED
      BY <1>1, <1>2, <1>4, <1>5, <2>1, StepEnds
  <1> QED
    BY <1>6, <1>7

\* The response is written as it comes, the log as it ends.
LEMMA FetchKeeps ==
    ASSUME IInv, FetchOut \/ FetchLog
    PROVE  IInv'
  <1>1. PagesAgree(guest, runs) /\ guest \in GuestState /\ faults' \in 0..plan.faults
    BY GentleStays DEF GuestInv, FetchOut, FetchLog, IInv
  <1>2. CASE FetchOut
    <2>1. guest.fetching # Absent /\ guest' = [guest EXCEPT !.out = guest.fetching]
          /\ UNCHANGED <<plan, client, runs>>
      BY <1>2 DEF FetchOut
    <2>2. /\ guest' \in GuestState /\ guest'.folder = guest.folder /\ guest'.typed = guest.typed
          /\ guest'.hits = guest.hits /\ guest'.last = guest.last
          /\ guest'.fetching = guest.fetching /\ guest'.out = guest.fetching /\ guest'.log = guest.log
          /\ guest'.req = guest.req
      BY <1>1, <2>1 DEF GuestState
    <2>3. PagesAgree(guest', runs) /\ guest.req <= guest'.req
      BY <1>1, <2>1, <2>2 DEF PagesAgree, Absent, GuestState, Run
    <2> QED
      BY <1>1, <2>1, <2>2, <2>3, GentleStays, GuestGoesOn
         DEF Gentle, SameMenu, Smooth, SameBinary, GuestInv
  <1>3. CASE FetchLog
    <2>1. guest.fetching # Absent /\ guest' = [guest EXCEPT !.log = guest.fetching, !.fetching = Absent]
          /\ UNCHANGED <<plan, client, runs>>
      BY <1>3 DEF FetchLog
    <2>2. /\ guest' \in GuestState /\ guest'.folder = guest.folder /\ guest'.typed = guest.typed
          /\ guest'.hits = guest.hits /\ guest'.last = guest.last
          /\ guest'.fetching = Absent /\ guest'.out = guest.out /\ guest'.log = guest.fetching
          /\ guest'.req = guest.req
      BY <1>1, <2>1 DEF GuestState
    <2>3. PagesAgree(guest', runs) /\ guest.req <= guest'.req
      BY <1>1, <2>1, <2>2 DEF PagesAgree, Absent, GuestState, Run
    <2> QED
      BY <1>1, <2>1, <2>2, <2>3, GentleStays, GuestGoesOn
         DEF Gentle, SameMenu, Smooth, SameBinary, GuestInv
  <1> QED
    BY <1>2, <1>3

\* The application that is sent to hangs, quits or comes back.
LEMMA BehaveKeeps ==
    ASSUME IInv, Behave
    PROVE  IInv'
  <1>1. PICK front \in {"reads", "stuck", "absent"} : guest' = [guest EXCEPT !.front = front]
    BY DEF Behave
  <1>2. UNCHANGED <<plan, client, runs>> /\ faults' \in 0..plan.faults
    BY DEF Behave, IInv
  <1>3. /\ guest' \in GuestState /\ SamePages(guest, guest') /\ guest'.folder = guest.folder
        /\ guest'.hits = guest.hits /\ guest'.last = guest.last /\ guest'.typed = guest.typed
    BY <1>1, GentleStays DEF GuestState, SamePages
  <1> QED
    BY <1>2, <1>3, GentleStays, PagesKept, GuestGoesOn DEF Gentle, SameMenu

\* The daemon dies, or its watchdog launches it.
LEMMA DaemonKeeps ==
    ASSUME IInv, Dies \/ Watchdog
    PROVE  IInv'
  <1>1. /\ UNCHANGED <<plan, client, runs>> /\ faults' \in 0..plan.faults
    <2>1. CASE Dies
      BY <2>1, PaysFits DEF Dies
    <2>2. CASE Watchdog
      BY <2>2 DEF Watchdog, IInv
    <2> QED
      BY <2>1, <2>2
  <1>2. PICK folder \in {Exits(guest.folder), Launches(guest.folder)} :
            guest' = [guest EXCEPT !.folder = folder]
    BY DEF Dies, Watchdog
  <1>3. guest \in GuestState /\ guest.folder \in Folder /\ FolderInv(guest.folder)
    BY GentleStays DEF GuestInv, GuestState
  <1>4. /\ folder \in Folder /\ FolderInv(folder) /\ folder.next = guest.folder.next
        /\ folder.mishap = guest.folder.mishap
    <2>1. CASE folder = Exits(guest.folder)
      BY <1>3, <2>1 DEF Exits, Folder, FolderInv, DaemonStays
    <2>2. CASE folder = Launches(guest.folder)
      BY <1>3, <2>2 DEF Launches, Folder, FolderInv, DaemonStays
    <2> QED
      BY <1>2, <2>1, <2>2
  <1>5. /\ guest' \in GuestState /\ guest'.folder = folder /\ guest'.typed = guest.typed
        /\ guest'.hits = guest.hits /\ guest'.last = guest.last /\ SamePages(guest, guest')
    BY <1>2, <1>3, <1>4 DEF GuestState, SamePages
  <1>6. PagesAgree(guest', runs) /\ guest.req <= guest'.req
    BY <1>3, <1>5, GentleStays DEF GuestInv, PagesAgree, SamePages, GuestState, Run
  <1>7. GuestInv(guest', runs) /\ Gentle(guest, guest')
    BY <1>4, <1>5, <1>6 DEF Gentle, SameMenu, Smooth, SameBinary, GuestInv, SamePages
  <1> QED
    BY <1>1, <1>7, GuestGoesOn

\* A guest that starts again has forgotten its menus and its application.
LEMMA RestartFits ==
    ASSUME NEW g, NEW n, GuestInv(g, n), NEW folder \in Folder, FolderInv([folder EXCEPT !.up = "gone"]),
           NEW h, h = Restarted([g EXCEPT !.folder = folder]),
           folder.next \in {g.folder.next, "none", "since"}, g.folder.mishap => folder.mishap
    PROVE  GuestInv(h, n) /\ Gentle(g, h) /\ h.folder = Exits(folder)
  <1>1. g \in GuestState /\ PagesAgree(g, n)
    BY DEF GuestInv
  <1> DEFINE gone == [folder EXCEPT !.up = "gone"]
  <1>2. gone \in Folder /\ gone.next = folder.next /\ gone.mishap = folder.mishap
    BY DEF Folder
  <1>3. h = [g EXCEPT !.folder = gone, !.fetching = Absent, !.armed = Nobody, !.hits = 0, !.last = Nobody]
    BY <1>1 DEF Restarted, Exits, GuestState
  <1>4. FolderInv(gone)
    OBVIOUS
  <1>5. gone = Exits(folder)
    BY DEF Exits
  <1> HIDE DEF gone
  <1>6. /\ h \in GuestState /\ h.folder = gone /\ h.typed = g.typed /\ h.last = Nobody
        /\ h.fetching = Absent /\ h.out = g.out /\ h.log = g.log /\ h.req = g.req
    <2>1. h \in GuestState
      <3> DEFINE h1 == [g EXCEPT !.folder = gone, !.fetching = Absent]
      <3>1. h1 \in GuestState
        BY <1>1, <1>2 DEF GuestState
      <3>2. h = [h1 EXCEPT !.armed = Nobody, !.hits = 0, !.last = Nobody]
        BY <1>3, Zenon
      <3> HIDE DEF h1
      <3>3. [h1 EXCEPT !.armed = Nobody, !.hits = 0] \in GuestState
        BY <3>1 DEF GuestState
      <3> QED
        BY <3>1, <3>2, <3>3 DEF GuestState
    <2>2. h.folder = gone /\ h.typed = g.typed /\ h.last = Nobody
      BY <1>1, <1>3 DEF GuestState
    <2>3. h.fetching = Absent /\ h.out = g.out /\ h.log = g.log /\ h.req = g.req
      BY <1>1, <1>3 DEF GuestState
    <2> QED
      BY <2>1, <2>2, <2>3
  <1>7. PagesAgree(h, n) /\ g.req <= h.req
    BY <1>1, <1>6 DEF PagesAgree, Absent, GuestState, Run
  <1>8. Smooth(g, h) /\ SameMenu(g, h) /\ SameBinary(g, h)
    BY <1>2, <1>6, <1>7 DEF Smooth, SameMenu, SameBinary
  <1> QED
    BY <1>4, <1>5, <1>6, <1>7, <1>8 DEF Gentle, GuestInv

\* The guest is restarted; a connection that breaks passes for it.
LEMMA RebootKeeps ==
    ASSUME IInv, NEW c \in Client, Reboot(c)
    PROVE  IInv'
  <1> DEFINE blind(f) == f.answer = "raised"
             k(f) == [client[c] EXCEPT !.done = f.ran, !.blind = blind(f)]
             ok(f) == Replied(f) \/ f.answer = "raised"
  <1>1. PICK f \in Fates(guest) :
            /\ Pays(Cost(f)) /\ UNCHANGED <<plan, runs>>
            /\ guest' = IF f.ran THEN Restarted(guest) ELSE guest
            /\ client' = [client EXCEPT ![c] = Verdict(k(f), ok(f))]
    BY Zenon DEF Reboot, Request
  <1>2. client[c].pc = "boot"
    BY DEF Reboot
  <1>3. client[c].tool = "reboot" /\ client[c].calls > 0 /\ client[c] \in ClientState
    BY <1>2, InCall DEF InCourse
  <1>4. faults' \in 0..plan.faults /\ runs' \in Nat /\ plan' = plan
    BY <1>1, CostFits, PaysFits DEF IInv
  <1>5. GuestInv(guest', runs') /\ Gentle(guest, guest')
    <2>1. CASE f.ran
      <3>1. guest \in GuestState /\ guest.folder \in Folder /\ FolderInv(guest.folder)
        BY GentleStays DEF GuestInv, GuestState
      <3>2. guest = [guest EXCEPT !.folder = guest.folder]
        BY <3>1 DEF GuestState
      <3>3. FolderInv([guest.folder EXCEPT !.up = "gone"])
        BY <3>1 DEF Folder, FolderInv, DaemonStays
      <3> QED
        BY <1>1, <2>1, <3>1, <3>2, <3>3, GentleStays, RestartFits
    <2>2. CASE ~f.ran
      BY <1>1, <2>2, GentleStays
    <2> QED
      BY <2>1, <2>2
  <1>6. blind(f) \in BOOLEAN /\ ok(f) \in BOOLEAN /\ (ok(f) => f.ran \/ blind(f)) /\ f.ran \in BOOLEAN
    BY FateIs DEF Replied
  <1> HIDE DEF blind, ok
  <1>7. /\ k(f) \in ClientState /\ k(f).tool = "reboot" /\ k(f).calls = client[c].calls
        /\ k(f).done = f.ran /\ k(f).blind = blind(f)
    BY <1>3, <1>6 DEF ClientState
  <1> HIDE DEF k
  <1>8. ok(f) => Real(k(f))
    BY <1>3, <1>6, <1>7 DEF Real
  <1> DEFINE r == Verdict(k(f), ok(f))
  <1>9. CallInv(r, guest') /\ r.tool = client[c].tool /\ r.calls = client[c].calls
    BY <1>3, <1>6, <1>7, <1>8, VerdictFits DEF Alike
  <1> HIDE DEF r
  <1>10. client' = [client EXCEPT ![c] = r]
    BY <1>1 DEF r
  <1> QED
    BY <1>2, <1>4, <1>5, <1>9, <1>10, CallGoesOn DEF Gentle

\* What a swap may leave of folder f.
Left(f, g) ==
    /\ g \in Folder /\ FolderInv(g) /\ FolderInv([g EXCEPT !.up = "gone"])
    /\ g.next \in {f.next, "none"} /\ (f.mishap => g.mishap)

\* Wherever a swap stops, a whole daemon is left, and under its name unless it was broken off or
\* its binary spoiled.
LEMMA SwapLeaves ==
    ASSUME NEW f \in Folder, FolderInv(f), f.mishap \/ f.next # "part",
           NEW g, \/ g = f
                  \/ Staged(f) /\ g \in {[f EXCEPT !.last = "none"], [Aside(f) EXCEPT !.mishap = TRUE],
                                         Swapped(f)}
    PROVE  Left(f, g)
  <1>1. ASSUME g \in Folder, DaemonStays(g), g.up = "live" => g.live \in Whole,
               g.next \in {f.next, "none"}, f.mishap => g.mishap
        PROVE  Left(f, g)
    <2>1. FolderInv(g)
      BY <1>1 DEF FolderInv
    <2>2. FolderInv([g EXCEPT !.up = "gone"])
      BY <1>1 DEF FolderInv, DaemonStays, Folder
    <2> QED
      BY <1>1, <2>1, <2>2 DEF Left
  <1>2. CASE g = f
    BY <1>1, <1>2 DEF FolderInv
  <1>3. CASE Staged(f) /\ g = [f EXCEPT !.last = "none"]
    <2>1. /\ g \in Folder /\ g.live = f.live /\ g.next = f.next /\ g.up = f.up /\ g.mishap = f.mishap
      BY <1>3 DEF Folder, Binary
    <2>2. g.live \in Whole
      BY <1>3, <2>1 DEF Staged, FolderInv
    <2> QED
      BY <1>1, <2>1, <2>2 DEF DaemonStays
  <1>4. CASE Staged(f) /\ g = [Aside(f) EXCEPT !.mishap = TRUE]
    <2>1. PICK mishap \in BOOLEAN : mishap /\ g = [Aside(f) EXCEPT !.mishap = mishap]
      BY <1>4, Zenon
    <2>2. /\ g \in Folder /\ g.last = f.live /\ g.next = f.next /\ g.up = "last" /\ g.mishap
      BY <2>1 DEF Aside, Folder, Binary
    <2>3. f.live \in Whole
      BY <1>4 DEF Staged, FolderInv
    <2> QED
      BY <1>1, <2>2, <2>3 DEF DaemonStays
  <1>5. CASE Staged(f) /\ g = Swapped(f)
    <2>1. /\ g \in Folder /\ g.last = f.live /\ g.live = f.next /\ g.next = "none" /\ g.up = "last"
          /\ g.mishap = f.mishap
      BY <1>5 DEF Swapped, Aside, Folder, Binary
    <2>2. f.live \in Whole /\ (f.next \in Whole \/ f.mishap)
      BY <1>5 DEF Staged, FolderInv, Folder, Binary, Whole
    <2> QED
      BY <1>1, <2>1, <2>2 DEF DaemonStays
  <1> QED
    BY <1>2, <1>3, <1>4, <1>5

\* SWAPSELF; the machine may stop in it.
LEMMA SwapKeeps ==
    ASSUME IInv, NEW c \in Client, Swap(c)
    PROVE  IInv'
  <1> DEFINE done(f, bad) == f.ran /\ bad = 0 /\ Staged(guest.folder)
             did(f, bad) == done(f, bad) /\ guest.folder.next = "since"
             ok(f, bad) == Replied(f) /\ done(f, bad)
             k(f, bad) == [client[c] EXCEPT !.done = did(f, bad)]
  <1>1. PICK f \in Fates(guest), bad \in 0..2 :
            /\ Pays(Cost(f) + bad) /\ UNCHANGED <<plan, runs>>
            /\ \/ \E folder \in IF f.ran THEN SwapSelf(guest.folder, bad) ELSE {guest.folder} :
                     guest' = [guest EXCEPT !.folder = folder]
               \/ \E folder \in CutShort(guest.folder) :
                     guest' = Restarted([guest EXCEPT !.folder = folder])
            /\ client' = [client EXCEPT ![c] = Verdict(k(f, bad), ok(f, bad))]
    BY Zenon DEF Swap
  <1>2. client[c].pc = "swap"
    BY DEF Swap
  <1>3. /\ client[c].tool = "update" /\ client[c].calls > 0 /\ client[c] \in ClientState
        /\ client[c].blind \/ guest.folder.next \in {"since", "none"}
        /\ guest.folder.mishap \/ guest.folder.next # "part"
    BY <1>2, InCall DEF InCourse, CallInv, BinaryIsStaged
  <1>4. faults' \in 0..plan.faults /\ runs' \in Nat /\ plan' = plan
    BY <1>1, CostFits, PaysFits DEF IInv
  <1>5. guest \in GuestState /\ guest.folder \in Folder /\ FolderInv(guest.folder)
    BY GentleStays DEF GuestInv, GuestState
  <1>6. GuestInv(guest', runs') /\ Gentle(guest, guest')
    <2>1. ASSUME NEW folder \in IF f.ran THEN SwapSelf(guest.folder, bad) ELSE {guest.folder},
                 guest' = [guest EXCEPT !.folder = folder]
          PROVE  GuestInv(guest', runs') /\ Gentle(guest, guest')
      <3>1. Left(guest.folder, folder)
        <4>1. \/ folder = guest.folder
              \/ Staged(guest.folder) /\ folder \in {[guest.folder EXCEPT !.last = "none"],
                                                     [Aside(guest.folder) EXCEPT !.mishap = TRUE],
                                                     Swapped(guest.folder)}
          BY <2>1, Zenon DEF SwapSelf
        <4> QED
          BY <1>3, <1>5, <4>1, SwapLeaves
      <3>2. /\ guest' \in GuestState /\ guest'.folder = folder /\ guest'.typed = guest.typed
            /\ guest'.hits = guest.hits /\ guest'.last = guest.last /\ SamePages(guest, guest')
        BY <1>5, <2>1, <3>1 DEF GuestState, SamePages, Left
      <3>3. PagesAgree(guest', runs) /\ guest.req <= guest'.req
        BY <1>5, <3>2, GentleStays DEF GuestInv, PagesAgree, SamePages, GuestState, Run
      <3> QED
        BY <1>1, <3>1, <3>2, <3>3 DEF Gentle, SameMenu, Smooth, SameBinary, GuestInv, SamePages, Left
    <2>2. ASSUME NEW folder \in CutShort(guest.folder),
                 guest' = Restarted([guest EXCEPT !.folder = folder])
          PROVE  GuestInv(guest', runs') /\ Gentle(guest, guest')
      <3>1. PICK g : /\ folder = [g EXCEPT !.up = "gone"]
                     /\ \/ g = guest.folder
                        \/ Staged(guest.folder) /\ g \in {[guest.folder EXCEPT !.last = "none"],
                                                          [Aside(guest.folder) EXCEPT !.mishap = TRUE],
                                                          Swapped(guest.folder)}
        BY <2>2, Zenon DEF CutShort
      <3>2. Left(guest.folder, g)
        BY <1>3, <1>5, <3>1, SwapLeaves
      <3>3. /\ folder \in Folder /\ folder.next = g.next /\ folder.mishap = g.mishap
            /\ [folder EXCEPT !.up = "gone"] = folder
        BY <3>1, <3>2 DEF Left, Folder
      <3>4. FolderInv([folder EXCEPT !.up = "gone"])
        BY <3>1, <3>2, <3>3 DEF Left
      <3> QED
        BY <1>1, <2>2, <3>2, <3>3, <3>4, GentleStays, RestartFits DEF Left
    <2> QED
      BY <1>1, <2>1, <2>2
  <1>7. /\ did(f, bad) \in BOOLEAN /\ ok(f, bad) \in BOOLEAN
        /\ ok(f, bad) => did(f, bad) \/ client[c].blind
    BY <1>3, FateIs DEF Replied, Staged
  <1> HIDE DEF done, did, ok
  <1>8. /\ k(f, bad) \in ClientState /\ k(f, bad).tool = "update" /\ k(f, bad).calls = client[c].calls
        /\ k(f, bad).done = did(f, bad) /\ k(f, bad).blind = client[c].blind
    BY <1>3, <1>7 DEF ClientState
  <1> HIDE DEF k
  <1>9. ok(f, bad) => Real(k(f, bad))
    BY <1>3, <1>7, <1>8 DEF Real
  <1> DEFINE r == Verdict(k(f, bad), ok(f, bad))
  <1>10. CallInv(r, guest') /\ r.tool = client[c].tool /\ r.calls = client[c].calls
    BY <1>3, <1>7, <1>8, <1>9, VerdictFits DEF Alike
  <1> HIDE DEF r
  <1>11. client' = [client EXCEPT ![c] = r]
    BY <1>1 DEF r
  <1> QED
    BY <1>2, <1>4, <1>6, <1>10, <1>11, CallGoesOn DEF Gentle

\* A binary is staged, or what was staged is spoiled, of which its owner is told.
LEMMA StageKeeps ==
    ASSUME IInv, NEW c \in Client, Stage(c)
    PROVE  IInv'
  <1> DEFINE spoiled(folder) == folder.next \notin Whole /\ \E d \in Client : client[d].pc = "swap"
  <1>1. PICK f \in Fates(guest) :
            /\ Pays(Cost(f)) /\ UNCHANGED <<plan, runs>>
            /\ \E folder \in IF f.ran THEN {[guest.folder EXCEPT !.next = "since"]}
                             ELSE IF guest.folder.up # "gone" THEN Broken(guest.folder)
                             ELSE {guest.folder} :
                /\ guest' = [guest EXCEPT !.folder = [folder EXCEPT !.mishap = folder.mishap \/ spoiled(folder)]]
                /\ client' = [d \in Client |->
                      IF d = c
                      THEN IF Replied(f) THEN To(client[c], "swap") ELSE End(client[c], "no")
                      ELSE [client[d] EXCEPT !.blind =
                               client[d].blind \/ (spoiled(folder) /\ client[d].pc = "swap")]]
    BY Zenon DEF Stage
  <1>2. client[c].pc = "stage"
    BY DEF Stage
  <1>3. /\ client[c].tool = "update" /\ client[c].calls > 0 /\ client[c].result = "none"
        /\ client[c] \in ClientState
    BY <1>2, InCall DEF InCourse
  <1>4. faults' \in 0..plan.faults /\ runs' \in Nat /\ plan' = plan
    BY <1>1, CostFits, PaysFits DEF IInv
  <1>5. guest \in GuestState /\ guest.folder \in Folder /\ FolderInv(guest.folder)
    BY GentleStays DEF GuestInv, GuestState
  <1>6. PICK folder \in IF f.ran THEN {[guest.folder EXCEPT !.next = "since"]}
                        ELSE IF guest.folder.up # "gone" THEN Broken(guest.folder)
                        ELSE {guest.folder} :
            /\ guest' = [guest EXCEPT !.folder = [folder EXCEPT !.mishap = folder.mishap \/ spoiled(folder)]]
            /\ client' = [d \in Client |->
                  IF d = c
                  THEN IF Replied(f) THEN To(client[c], "swap") ELSE End(client[c], "no")
                  ELSE [client[d] EXCEPT !.blind =
                           client[d].blind \/ (spoiled(folder) /\ client[d].pc = "swap")]]
    BY <1>1
  <1>7. /\ folder \in Folder /\ folder.mishap = guest.folder.mishap
        /\ folder.next \in {guest.folder.next, "none", "part", "since"}
        /\ f.ran => folder.next = "since"
        /\ folder.live = guest.folder.live /\ folder.last = guest.folder.last
        /\ folder.up = guest.folder.up
    <2>1. PICK next \in {guest.folder.next, "none", "part", "since"} :
             folder = [guest.folder EXCEPT !.next = next] /\ (f.ran => next = "since")
      <3>1. [guest.folder EXCEPT !.next = guest.folder.next] = guest.folder
        BY <1>5 DEF Folder
      <3> QED
        BY <1>6, <3>1 DEF Broken
    <2> QED
      BY <1>5, <2>1 DEF Folder, Binary
  <1> DEFINE bad == spoiled(folder)
             mishap == folder.mishap \/ bad
             g == [folder EXCEPT !.mishap = mishap]
  <1>8. bad \in BOOLEAN /\ mishap \in BOOLEAN /\ (guest.folder.mishap => mishap) /\ (bad => mishap)
    BY <1>7 DEF Folder
  <1>9. \/ bad
        \/ \A d \in Client : client[d].pc # "swap"
        \/ folder.next \in {guest.folder.next, "none", "since"}
    BY <1>7 DEF Whole
  <1>10. guest' = [guest EXCEPT !.folder = g]
    BY <1>6
  <1>11. /\ client' = [d \in Client |->
               IF d = c THEN IF Replied(f) THEN To(client[c], "swap") ELSE End(client[c], "no")
               ELSE [client[d] EXCEPT !.blind = client[d].blind \/ (bad /\ client[d].pc = "swap")]]
    BY <1>6
  <1> HIDE DEF bad, mishap
  <1>12. /\ g \in Folder /\ g.next = folder.next /\ g.mishap = mishap /\ g.live = folder.live
         /\ g.last = folder.last /\ g.up = folder.up
    BY <1>7, <1>8 DEF Folder
  <1> HIDE DEF g
  <1>13. FolderInv(g)
    BY <1>5, <1>7, <1>8, <1>12 DEF FolderInv, DaemonStays
  <1>14. /\ guest' \in GuestState /\ guest'.folder = g /\ guest'.typed = guest.typed
         /\ guest'.hits = guest.hits /\ guest'.last = guest.last /\ SamePages(guest, guest')
    BY <1>5, <1>10, <1>12 DEF GuestState, SamePages
  <1>15. PagesAgree(guest', runs) /\ guest.req <= guest'.req
    BY <1>5, <1>14, GentleStays DEF GuestInv, PagesAgree, SamePages, GuestState, Run
  <1>16. GuestInv(guest', runs') /\ Smooth(guest, guest') /\ SameMenu(guest, guest')
    BY <1>1, <1>7, <1>8, <1>12, <1>13, <1>14, <1>15
       DEF SameMenu, Smooth, GuestInv, SamePages
  <1>17. /\ client'[c] \in ClientState /\ client'[c].calls = client[c].calls
         /\ client'[c].tool = "update" /\ CallInv(client'[c], guest')
    <2>1. CASE Replied(f)
      <3> DEFINE r == To(client[c], "swap")
      <3>1. r \in ClientState /\ r.pc = "swap" /\ r.result = "none" /\ Alike(client[c], r)
        BY <1>3, ToIs DEF Pcs
      <3>2. client'[c] = r
        BY <1>11, <2>1
      <3> HIDE DEF r
      <3>3. guest'.folder.next = "since"
        BY <1>7, <1>12, <1>14, <2>1, FateIs
      <3>4. CallInv(r, guest')
        BY <1>3, <3>1, <3>3 DEF CallInv, InCourse, ChoiceIsMarked, PageIsAhead, BinaryIsStaged,
                                TargetIsProbed, ReportIsTrue, Alike
      <3> QED
        BY <1>3, <3>1, <3>2, <3>4 DEF Alike
    <2>2. CASE ~Replied(f)
      <3>1. client'[c] = End(client[c], "no")
        BY <1>11, <2>2
      <3>2. CallInv(End(client[c], "no"), guest') /\ Alike(client[c], End(client[c], "no"))
        BY <1>3, EndFits
      <3> QED
        BY <1>3, <3>1, <3>2 DEF Alike, CallInv
    <2> QED
      BY <2>1, <2>2
  <1>18. ASSUME NEW d \in Client \ {c}
         PROVE  /\ Marked(client[d], client'[d]) /\ CallInv(client'[d], guest')
                /\ TextOf(d, client'[d], guest'.typed)
    <2> DEFINE blind == client[d].blind \/ (bad /\ client[d].pc = "swap")
    <2>1. CallInv(client[d], guest) /\ TextOf(d, client[d], guest.typed) /\ client[d] \in ClientState
      BY DEF IInv
    <2>2. client'[d] = [client[d] EXCEPT !.blind = blind]
      BY <1>11
    <2>3. /\ blind \in BOOLEAN /\ (client[d].blind => blind) /\ (bad /\ client[d].pc = "swap" => blind)
      BY <1>8, <2>1 DEF ClientState
    <2> HIDE DEF blind
    <2>4. Marked(client[d], client'[d]) /\ client'[d].blind = blind
      BY <2>1, <2>2, <2>3 DEF Marked, ClientState
    <2>5. SameBinary(guest, guest') \/ (client[d].pc = "swap" => client'[d].blind /\ guest'.folder.mishap)
      BY <1>8, <1>9, <1>12, <1>14, <2>3, <2>4 DEF SameBinary
    <2>6. CallInv(client'[d], guest')
      BY <1>5, <1>14, <1>16, <2>1, <2>4, <2>5, CallStays
    <2>7. TextOf(d, client'[d], guest.typed)
      BY <2>1, <2>4, TextStays DEF Marked
    <2> QED
      BY <1>14, <2>4, <2>6, <2>7
  <1>19. client' \in [Client -> ClientState]
    <2>1. \A d \in Client : client'[d] \in ClientState
      BY <1>17, <1>18 DEF Marked
    <2> QED
      BY <1>11, <2>1
  <1>20. TextOf(c, client'[c], guest'.typed)
    BY <1>3, <1>17, TextIgnored DEF ClientState
  <1>21. client'[c].calls <= plan.calls
    BY <1>17 DEF IInv
  <1> QED
    BY <1>4, <1>16, <1>17, <1>18, <1>19, <1>20, <1>21, OneGoesOn DEF Marked

\* Whoever chose the item that a menu returns has had its choice.
LEMMA MenuOpens ==
    ASSUME IInv, NEW h, h = Opened(guest), NEW m, m = Chosen(guest.armed)
    PROVE  /\ GuestInv(h, runs) /\ m \in [Client -> ClientState]
           /\ \A d \in Client : /\ m[d].calls = client[d].calls /\ m[d].pc = client[d].pc
                                /\ CallInv(m[d], h) /\ TextOf(d, m[d], h.typed)
  <1>1. guest \in GuestState
    BY GentleStays
  <1>2. /\ h \in GuestState /\ SamePages(guest, h) /\ h.folder = guest.folder /\ h.typed = guest.typed
        /\ h.last = guest.armed \/ (h.hits = guest.hits /\ h.last = guest.last)
    <2>1. CASE guest.armed = Nobody
      BY <1>1, <2>1 DEF Opened, SamePages
    <2>2. CASE guest.armed # Nobody
      <3> DEFINE armed == guest.armed
                 hits == guest.hits + 1
      <3>1. hits \in Nat /\ armed \in Items \union {Nobody}
        BY <1>1 DEF GuestState
      <3>2. h = [guest EXCEPT !.hits = hits, !.last = armed, !.armed = Nobody]
        BY <2>2 DEF Opened
      <3> HIDE DEF armed, hits
      <3>3. h \in GuestState
        BY <1>1, <3>1, <3>2 DEF GuestState
      <3>4. SamePages(guest, h) /\ h.folder = guest.folder /\ h.typed = guest.typed /\ h.last = armed
        BY <1>1, <3>2 DEF GuestState, SamePages
      <3> QED
        BY <3>3, <3>4 DEF armed
    <2> QED
      BY <2>1, <2>2
  <1>3. GuestInv(h, runs) /\ Smooth(guest, h) /\ SameBinary(guest, h)
    BY <1>2, GentleStays, PagesKept
  <1>4. ASSUME NEW d \in Client
        PROVE  /\ m[d].calls = client[d].calls /\ m[d].pc = client[d].pc /\ m[d] \in ClientState
               /\ CallInv(m[d], h) /\ TextOf(d, m[d], h.typed)
    <2>1. CallInv(client[d], guest) /\ TextOf(d, client[d], guest.typed) /\ client[d] \in ClientState
      BY DEF IInv
    <2> DEFINE chose == client[d].tool = "menu" /\ client[d].pc # "idle" /\ client[d].item = guest.armed
    <2>2. Marked(client[d], m[d]) /\ (chose => m[d].done)
      <3>1. CASE chose
        <4>1. PICK done \in BOOLEAN : done /\ m[d] = [client[d] EXCEPT !.done = done]
          BY <3>1, Zenon DEF Chosen
        <4> QED
          BY <2>1, <4>1 DEF Marked, ClientState
      <3>2. CASE ~chose
        <4>1. m[d] = client[d]
          BY <3>2 DEF Chosen
        <4> QED
          BY <2>1, <3>2, <4>1 DEF Marked
      <3> QED
        BY <3>1, <3>2
    <2>3. \/ SameMenu(guest, h)
          \/ client[d].tool = "menu" /\ client[d].pc # "idle" /\ h.last = m[d].item => m[d].done
      BY <1>2, <2>2 DEF SameMenu, Marked
    <2>4. CallInv(m[d], h)
      BY <1>1, <1>2, <1>3, <2>1, <2>2, <2>3, CallStays
    <2> QED
      BY <1>2, <2>1, <2>2, <2>4, TextStays DEF Marked
  <1>5. m \in [Client -> ClientState]
    BY <1>4 DEF Chosen
  <1> QED
    BY <1>3, <1>4, <1>5

\* A menu is opened by whoever uses the guest.
LEMMA OpenKeeps ==
    ASSUME IInv, Open
    PROVE  IInv'
  <1>1. guest' = Opened(guest) /\ client' = Chosen(guest.armed) /\ UNCHANGED <<plan, runs, faults>>
    BY DEF Open
  <1>2. /\ GuestInv(guest', runs) /\ client' \in [Client -> ClientState]
        /\ \A d \in Client : /\ client'[d].calls = client[d].calls
                             /\ CallInv(client'[d], guest') /\ TextOf(d, client'[d], guest'.typed)
    BY <1>1, MenuOpens
  <1> QED
    BY <1>1, <1>2 DEF IInv

\* After a click one is fewer left.
Clicked(k, pc) == [k EXCEPT !.pc = pc, !.n = k.n - 1]

\* It takes nothing from what the call relies on.
LEMMA ClickFits ==
    ASSUME NEW k, NEW g, CallInv(k, g), k.pc = "trigger", NEW pc \in {"read", "after"}
    PROVE  /\ CallInv(Clicked(k, pc), g) /\ Clicked(k, pc).tool = "menu"
           /\ Clicked(k, pc).calls = k.calls /\ k.calls > 0 /\ k.calls \in Nat
  <1>1. k \in ClientState /\ k.n > 0 /\ k.calls > 0 /\ k.result = "none" /\ k.tool = "menu"
        /\ ChoiceIsMarked(k, g)
    BY DEF CallInv, InCourse
  <1> DEFINE n == k.n - 1
             r == Clicked(k, pc)
  <1>2. n \in Nat
    BY <1>1 DEF ClientState
  <1>3. r = [k EXCEPT !.pc = pc, !.n = n]
    BY DEF Clicked
  <1> HIDE DEF n, r
  <1>4. /\ r \in ClientState /\ r.pc = pc /\ r.result = "none" /\ r.tool = "menu" /\ r.calls = k.calls
        /\ r.item = k.item /\ r.before = k.before /\ r.done = k.done /\ r.blind = k.blind
    BY <1>1, <1>2, <1>3 DEF ClientState
  <1>5. ChoiceIsMarked(r, g)
    BY <1>1, <1>4 DEF ChoiceIsMarked
  <1>6. CallInv(r, g)
    BY <1>1, <1>4, <1>5 DEF CallInv, InCourse, PageIsAhead, BinaryIsStaged, TargetIsProbed, ReportIsTrue
  <1>7. k.calls \in Nat
    BY <1>1 DEF ClientState
  <1> QED
    BY <1>1, <1>4, <1>6, <1>7 DEF r

\* The click opens the menu, or fails, or misses.
LEMMA TriggerKeeps ==
    ASSUME IInv, NEW c \in Client, Trigger(c)
    PROVE  IInv'
  <1>1. client[c].pc = "trigger" /\ UNCHANGED <<plan, runs, faults>>
    BY DEF Trigger
  <1>2. runs' \in Nat /\ faults' \in 0..plan.faults /\ client \in [Client -> ClientState]
    BY <1>1 DEF IInv
  <1>3. CASE /\ guest' = Opened(guest)
             /\ client' = [Chosen(guest.armed) EXCEPT ![c].pc = "read", ![c].n = @ - 1]
    <2> DEFINE m == Chosen(guest.armed)
    <2>1. /\ GuestInv(guest', runs) /\ m \in [Client -> ClientState]
          /\ \A d \in Client : /\ m[d].calls = client[d].calls /\ m[d].pc = client[d].pc
                               /\ CallInv(m[d], guest') /\ TextOf(d, m[d], guest'.typed)
      BY <1>3, MenuOpens
    <2> HIDE DEF m
    <2> DEFINE r == Clicked(m[c], "read")
    <2>2. client' = [m EXCEPT ![c] = r]
      BY <1>3, <2>1 DEF m, Clicked
    <2>3. CallInv(r, guest') /\ r.tool = "menu" /\ r.calls = m[c].calls /\ r.calls > 0 /\ r.calls \in Nat
      <3>1. CallInv(m[c], guest') /\ m[c].pc = "trigger"
        BY <1>1, <2>1
      <3> QED
        BY <3>1, ClickFits
    <2>4. r \in ClientState
      BY <2>3 DEF CallInv
    <2> HIDE DEF r
    <2>5. /\ client' \in [Client -> ClientState] /\ client'[c] = r
          /\ \A d \in Client \ {c} : client'[d] = m[d]
      BY <2>1, <2>2, <2>4
    <2>6. TextOf(c, client'[c], guest'.typed)
      BY <2>3, <2>5, TextIgnored
    <2>7. client'[c].calls <= plan.calls
      BY <2>1, <2>3, <2>5 DEF IInv
    <2> QED
      BY <1>1, <1>2, <2>1, <2>3, <2>5, <2>6, <2>7, OneGoesOn
  <1>4. ASSUME NEW pc \in {"read", "after"}, guest' = guest,
               client' = [client EXCEPT ![c].pc = pc, ![c].n = @ - 1]
        PROVE  IInv'
    <2> DEFINE r == Clicked(client[c], pc)
    <2>1. client' = [client EXCEPT ![c] = r]
      BY <1>2, <1>4 DEF Clicked
    <2>2. CallInv(r, guest) /\ r.tool = "menu" /\ r.calls = client[c].calls
      <3>1. CallInv(client[c], guest) /\ client[c].pc = "trigger"
        BY <1>1, InCall
      <3> QED
        BY <3>1, ClickFits
    <2> HIDE DEF r
    <2>3. client[c].tool = "menu"
      BY <1>1, InCall DEF InCourse
    <2>4. GuestInv(guest', runs') /\ Gentle(guest, guest')
      BY <1>1, <1>4, GentleStays
    <2> QED
      BY <1>1, <1>2, <1>4, <2>1, <2>2, <2>3, <2>4, CallGoesOn DEF Gentle
  <1> QED
    BY <1>3, <1>4 DEF Trigger

-----------------------------------------------------------------------------
(* Texts *)

Piece == Client \X (1..Chunks)

\* A piece more.
LEMMA AppendIs ==
    ASSUME NEW t \in Seq(Piece), NEW p \in Piece, NEW s, s = Append(t, p)
    PROVE  /\ s \in Seq(Piece) /\ Len(t) \in Nat /\ DOMAIN t = 1..Len(t) /\ DOMAIN s = 1..(Len(t) + 1)
           /\ \A i \in DOMAIN t : s[i] = t[i]
           /\ s[Len(t) + 1] = p
  OBVIOUS

\* A piece of another's leaves a text what it is.
LEMMA OthersPiece ==
    ASSUME NEW c \in Client, NEW k, NEW t \in Seq(Piece), NEW p \in Piece, p[1] # c,
           NEW s, s = Append(t, p), TextOf(c, k, t)
    PROVE  TextOf(c, k, s)
  <1>1. /\ Len(t) \in Nat /\ DOMAIN t = 1..Len(t) /\ DOMAIN s = 1..(Len(t) + 1)
        /\ \A i \in DOMAIN t : s[i] = t[i]
        /\ s[Len(t) + 1] = p
    BY AppendIs
  <1>2. ASSUME NEW i \in DOMAIN s, s[i][1] = c
        PROVE  i \in DOMAIN t /\ s[i] = t[i]
    BY <1>1, <1>2
  <1>3. ASSUME InTurn(c, t)
        PROVE  InTurn(c, s)
    <2> SUFFICES ASSUME NEW i \in DOMAIN s, s[i][1] = c
                 PROVE  /\ s[i][2] = 1 \/ \E j \in 1..(i - 1) : s[j] = <<c, s[i][2] - 1>>
                        /\ \A j \in 1..(i - 1) : s[j][1] = c => s[j][2] < s[i][2]
      BY DEF InTurn
    <2>1. i \in DOMAIN t /\ s[i] = t[i]
      BY <1>2
    <2>2. \A j \in 1..(i - 1) : j \in DOMAIN t /\ s[j] = t[j]
      BY <1>1, <2>1
    <2>3. /\ t[i][2] = 1 \/ \E j \in 1..(i - 1) : t[j] = <<c, t[i][2] - 1>>
          /\ \A j \in 1..(i - 1) : t[j][1] = c => t[j][2] < t[i][2]
      BY <1>3, <2>1 DEF InTurn
    <2> QED
      BY <2>1, <2>2, <2>3
  <1>4. ASSUME NEW n, Has(c, n, t)
        PROVE  Has(c, n, s)
    BY <1>1, <1>4 DEF Has
  <1>5. k.calls = 0 => \A i \in DOMAIN s : s[i][1] # c
    BY <1>2 DEF TextOf
  <1>6. ASSUME k.tool = "type", k.calls = 1
        PROVE  /\ InTurn(c, s)
               /\ k.result = "yes" => Has(c, Chunks, s)
               /\ k.pc = "type" => /\ \A i \in DOMAIN s : s[i][1] = c => s[i][2] <= k.n
                                   /\ k.n = 0 \/ Has(c, k.n, s)
    BY <1>2, <1>3, <1>4, <1>6 DEF TextOf
  <1> QED
    BY <1>5, <1>6 DEF TextOf

\* The next piece of its own makes it longer by that one.
LEMMA OwnPiece ==
    ASSUME NEW c \in Client, NEW k \in ClientState, NEW l, NEW t \in Seq(Piece), NEW n \in 1..Chunks,
           k.pc = "type", k.tool = "type", k.calls > 0, n = k.n + 1, TextOf(c, k, t),
           l.tool = k.tool, l.calls = k.calls, l.n = n, l.result = "yes" => n = Chunks,
           NEW s, s = Append(t, <<c, n>>)
    PROVE  TextOf(c, l, s)
  <1>1. /\ Len(t) \in Nat /\ DOMAIN t = 1..Len(t) /\ DOMAIN s = 1..(Len(t) + 1)
        /\ \A i \in DOMAIN t : s[i] = t[i] /\ t[i] \in Piece
        /\ s[Len(t) + 1] = <<c, n>>
    BY AppendIs DEF Piece
  <1>2. l.calls # 0 /\ k.n \in Nat /\ Chunks \in Nat
    BY ToolsAssumption DEF ClientState
  <1> SUFFICES ASSUME l.calls = 1
               PROVE  /\ InTurn(c, s) /\ Has(c, n, s)
                      /\ \A i \in DOMAIN s : s[i][1] = c => s[i][2] <= n
    BY <1>2 DEF TextOf
  <1>3. /\ InTurn(c, t) /\ (k.n = 0 \/ Has(c, k.n, t))
        /\ \A i \in DOMAIN t : t[i][1] = c => t[i][2] <= k.n
    BY DEF TextOf
  <1>4. Has(c, n, s)
    BY <1>1 DEF Has
  <1>5. \A i \in DOMAIN t : t[i][1] = c => t[i][2] \in 1..Chunks /\ t[i][2] < n
    BY <1>1, <1>2, <1>3 DEF Piece
  <1>6. \A i \in DOMAIN s : s[i][1] = c => s[i][2] <= n
    <2> SUFFICES ASSUME NEW i \in DOMAIN s, s[i][1] = c
                 PROVE  s[i][2] <= n
      OBVIOUS
    <2>1. CASE i \in DOMAIN t
      BY <1>1, <1>5, <2>1
    <2>2. CASE i = Len(t) + 1
      BY <1>1, <2>2
    <2> QED
      BY <1>1, <2>1, <2>2
  <1>7. InTurn(c, s)
    <2> SUFFICES ASSUME NEW i \in DOMAIN s, s[i][1] = c
                 PROVE  /\ s[i][2] = 1 \/ \E j \in 1..(i - 1) : s[j] = <<c, s[i][2] - 1>>
                        /\ \A j \in 1..(i - 1) : s[j][1] = c => s[j][2] < s[i][2]
      BY DEF InTurn
    <2>1. CASE i \in DOMAIN t
      <3>1. s[i] = t[i] /\ \A j \in 1..(i - 1) : j \in DOMAIN t /\ s[j] = t[j]
        BY <1>1, <2>1
      <3>2. /\ t[i][2] = 1 \/ \E j \in 1..(i - 1) : t[j] = <<c, t[i][2] - 1>>
            /\ \A j \in 1..(i - 1) : t[j][1] = c => t[j][2] < t[i][2]
        BY <1>3, <2>1, <3>1 DEF InTurn
      <3> QED
        BY <3>1, <3>2
    <2>2. CASE i = Len(t) + 1
      <3>1. s[i] = <<c, n>> /\ 1..(i - 1) = DOMAIN t
        BY <1>1, <2>2
      <3>2. s[i][2] = n /\ n - 1 = k.n
        BY <1>2, <3>1
      <3>3. n = 1 \/ \E j \in DOMAIN t : t[j] = <<c, n - 1>>
        BY <1>2, <1>3, <3>2 DEF Has
      <3>4. n = 1 \/ \E j \in DOMAIN t : s[j] = <<c, n - 1>>
        BY <1>1, <3>3
      <3>5. \A j \in DOMAIN t : s[j][1] = c => s[j][2] < n
        BY <1>1, <1>5
      <3> QED
        BY <3>1, <3>2, <3>4, <3>5
    <2>3. i \in DOMAIN t \/ i = Len(t) + 1
      BY <1>1
    <2> QED
      BY <2>1, <2>2, <2>3
  <1> QED
    BY <1>4, <1>6, <1>7

\* A piece is typed, and the next goes on from it only if it was acknowledged.
LEMMA TypeChunkKeeps ==
    ASSUME IInv, NEW c \in Client, TypeChunk(c)
    PROVE  IInv'
  <1> DEFINE n == client[c].n + 1
  <1>1. client[c].pc = "type"
    BY DEF TypeChunk
  <1>2. PICK f \in Fates(guest) :
            /\ Pays(Cost(f)) /\ UNCHANGED <<plan, runs>>
            /\ guest' = IF f.ran THEN [guest EXCEPT !.typed = Append(guest.typed, <<c, n>>)] ELSE guest
            /\ client' = [client EXCEPT ![c] =
                  LET m == [client[c] EXCEPT !.n = n, !.done = f.ran] IN
                  IF ~Replied(f) THEN End(m, "no") ELSE IF n = Chunks THEN End(m, "yes") ELSE m]
    BY Zenon DEF TypeChunk, Request
  <1>3. /\ client[c].tool = "type" /\ client[c].calls > 0 /\ client[c].result = "none"
        /\ client[c] \in ClientState /\ TextOf(c, client[c], guest.typed)
        /\ client[c].n < Chunks /\ client[c].calls <= plan.calls
    BY <1>1, InCall DEF InCourse, IInv
  <1>4. n \in 1..Chunks /\ n \in Nat /\ Chunks \in Nat
    BY <1>3, ToolsAssumption DEF ClientState
  <1>5. faults' \in 0..plan.faults /\ runs' \in Nat /\ plan' = plan
    BY <1>2, CostFits, PaysFits DEF IInv
  <1>6. f.ran \in BOOLEAN /\ (Replied(f) => f.ran)
    BY FateIs
  <1>7. n = client[c].n + 1
    OBVIOUS
  <1> HIDE DEF n
  <1> DEFINE m == [client[c] EXCEPT !.n = n, !.done = f.ran]
  <1>8. /\ m \in ClientState /\ m.pc = "type" /\ m.tool = "type" /\ m.calls = client[c].calls
        /\ m.result = "none" /\ m.n = n /\ m.done = f.ran
    BY <1>1, <1>3, <1>4, <1>6 DEF ClientState
  <1> DEFINE r == IF ~Replied(f) THEN End(m, "no") ELSE IF n = Chunks THEN End(m, "yes") ELSE m
  <1>9. client' = [client EXCEPT ![c] = r]
    BY <1>2
  <1> HIDE DEF m
  <1>10. /\ CallInv(r, guest') /\ r.tool = "type" /\ r.calls = client[c].calls /\ r.n = n
         /\ r.result = "yes" => f.ran /\ n = Chunks
         /\ r.pc = "type" => f.ran
    <2>1. CASE ~Replied(f)
      <3>1. r = End(m, "no")
        BY <2>1
      <3>2. r.pc = "idle" /\ r.result = "no"
        BY <1>8, <3>1 DEF End, ClientState
      <3> QED
        BY <1>8, <3>1, <3>2, EndFits DEF Alike
    <2>2. CASE Replied(f) /\ n = Chunks
      <3>1. r = End(m, "yes") /\ Real(m)
        BY <1>3, <1>6, <1>8, <2>2 DEF Real
      <3>2. r.pc = "idle" /\ r.result = "yes"
        BY <1>8, <3>1 DEF End, ClientState
      <3> QED
        BY <1>6, <1>8, <2>2, <3>1, <3>2, EndFits DEF Alike
    <2>3. CASE Replied(f) /\ n # Chunks
      <3>1. r = m /\ n < Chunks
        BY <1>4, <2>3
      <3>2. CallInv(m, guest')
        BY <1>3, <1>8, <3>1
           DEF CallInv, InCourse, ChoiceIsMarked, PageIsAhead, BinaryIsStaged, TargetIsProbed, ReportIsTrue
      <3> QED
        BY <1>6, <1>8, <2>3, <3>1, <3>2
    <2> QED
      BY <2>1, <2>2, <2>3
  <1> HIDE DEF r
  <1>11. guest \in GuestState /\ client \in [Client -> ClientState] /\ guest.typed \in Seq(Piece)
         /\ <<c, n>> \in Piece /\ r \in ClientState
    BY <1>4, <1>10, GentleStays DEF IInv, GuestState, Piece, CallInv
  <1>12. /\ client' \in [Client -> ClientState] /\ client'[c] = r
         /\ \A d \in Client \ {c} : client'[d] = client[d]
    BY <1>9, <1>11
  <1>13. /\ GuestInv(guest', runs') /\ guest' \in GuestState
         /\ Smooth(guest, guest') /\ SameMenu(guest, guest') /\ SameBinary(guest, guest')
         /\ guest'.typed = IF f.ran THEN Append(guest.typed, <<c, n>>) ELSE guest.typed
    <2>1. CASE f.ran
      <3>1. guest' = [guest EXCEPT !.typed = Append(guest.typed, <<c, n>>)]
        BY <1>2, <2>1 DEF n
      <3> DEFINE s == Append(guest.typed, <<c, n>>)
      <3>2. s \in Seq(Piece) /\ guest' = [guest EXCEPT !.typed = s]
        BY <1>11, <3>1
      <3> HIDE DEF s
      <3>3. guest' \in GuestState /\ SamePages(guest, guest') /\ guest'.folder = guest.folder
            /\ guest'.hits = guest.hits /\ guest'.last = guest.last /\ guest'.typed = s
        BY <1>11, <3>2 DEF GuestState, SamePages, Piece
      <3> QED
        BY <1>2, <2>1, <3>3, GentleStays, PagesKept DEF SameMenu, s
    <2>2. CASE ~f.ran
      BY <1>2, <2>2, GentleStays DEF Gentle
    <2> QED
      BY <1>6, <2>1, <2>2
  <1>14. TextOf(c, r, guest'.typed)
    <2>1. CASE f.ran
      BY <1>1, <1>3, <1>4, <1>7, <1>10, <1>11, <1>13, <2>1, OwnPiece
    <2>2. CASE ~f.ran
      BY <1>3, <1>10, <1>13, <2>2 DEF TextOf
    <2> QED
      BY <1>6, <2>1, <2>2
  <1>15. ASSUME NEW d \in Client \ {c}
         PROVE  /\ client'[d].calls = client[d].calls /\ CallInv(client'[d], guest')
                /\ TextOf(d, client'[d], guest'.typed)
    <2>1. CallInv(client[d], guest) /\ TextOf(d, client[d], guest.typed) /\ client'[d] = client[d]
      BY <1>12 DEF IInv
    <2>2. Marked(client[d], client'[d])
      BY <1>11, <2>1 DEF Marked
    <2>3. CallInv(client'[d], guest')
      BY <1>11, <1>13, <2>1, <2>2, CallStays
    <2>4. CASE f.ran
      BY <1>11, <1>13, <2>1, <2>3, <2>4, OthersPiece
    <2>5. CASE ~f.ran
      BY <1>13, <2>1, <2>3, <2>5
    <2> QED
      BY <1>6, <2>4, <2>5
  <1> QED
    BY <1>3, <1>5, <1>10, <1>12, <1>13, <1>14, <1>15, OneGoesOn

-----------------------------------------------------------------------------
(* A call begins *)

\* Where each tool begins.
LEMMA FirstIs ==
    /\ First["type"] = "type" /\ First["menu"] = "adopt" /\ First["https"] = "write"
    /\ First["update"] = "home" /\ First["reboot"] = "boot" /\ First["event"] = "probe"
    /\ First["list"] = "listdir" /\ First["verb"] = "verb"
  BY DEF First

\* A call that begins relies on nothing.
LEMMA FirstFits ==
    ASSUME NEW k \in ClientState, NEW g, NEW tool \in Tool,
           k.tool = tool, k.calls > 0, k.result = "none", k.n = 0
    PROVE  CallInv(To(k, First[tool]), g)
  <1>1. /\ First[tool] \in {"type", "adopt", "write", "home", "boot", "probe", "listdir", "verb"}
        /\ First[tool] = "type" => tool = "type"
        /\ First[tool] = "adopt" => tool = "menu"
        /\ First[tool] = "write" => tool = "https"
        /\ First[tool] = "home" => tool = "update"
        /\ First[tool] = "boot" => tool = "reboot"
        /\ First[tool] = "probe" => tool = "event"
        /\ First[tool] = "listdir" => tool = "list"
        /\ First[tool] = "verb" => tool = "verb"
    BY FirstIs DEF Tool
  <1> DEFINE r == To(k, First[tool])
  <1>2. r \in ClientState /\ r.pc = First[tool] /\ r.result = "none" /\ Alike(k, r)
    BY <1>1, ToIs DEF Pcs
  <1> HIDE DEF r
  <1>3. r.n = 0 /\ 0 < Chunks /\ r.tool = tool /\ r.calls > 0
    BY <1>2, ToolsAssumption DEF Alike
  <1>4. InCourse(r)
    BY <1>1, <1>2, <1>3 DEF InCourse
  <1>5. ChoiceIsMarked(r, g) /\ PageIsAhead(r, g) /\ BinaryIsStaged(r, g) /\ TargetIsProbed(r)
        /\ ReportIsTrue(r)
    BY <1>1, <1>2 DEF ChoiceIsMarked, PageIsAhead, BinaryIsStaged, TargetIsProbed, ReportIsTrue
  <1>6. CallInv(r, g)
    BY <1>2, <1>4, <1>5 DEF CallInv
  <1> QED
    BY <1>6 DEF r

\* A call begins, or is refused.
LEMMA BeginKeeps ==
    ASSUME IInv, NEW c \in Client, NEW tool \in Tool, Begin(c, tool)
    PROVE  IInv'
  <1>1. /\ client[c].pc = "idle" /\ client[c].calls < plan.calls
        /\ UNCHANGED <<plan, guest, runs, faults>>
    BY DEF Begin
  <1>2. PICK connected \in BOOLEAN, elsewhere \in BOOLEAN, item \in Items :
            client' = [client EXCEPT ![c] =
                LET k == [client[c] EXCEPT !.tool = tool, !.calls = @ + 1, !.result = "none",
                                           !.n = 0, !.item = item, !.before = 0, !.page = Absent,
                                           !.done = FALSE, !.blind = FALSE, !.read = FALSE]
                IN  IF elsewhere \/ ~connected THEN End(k, "no") ELSE To(k, First[tool])]
    BY Zenon DEF Begin
  <1>3. client[c] \in ClientState /\ client \in [Client -> ClientState] /\ client[c].calls \in Nat
        /\ plan.calls \in Nat
    BY ToolsAssumption DEF IInv, ClientState
  <1> DEFINE k == [client[c] EXCEPT !.tool = tool, !.calls = @ + 1, !.result = "none",
                                    !.n = 0, !.item = item, !.before = 0, !.page = Absent,
                                    !.done = FALSE, !.blind = FALSE, !.read = FALSE]
             r == IF elsewhere \/ ~connected THEN End(k, "no") ELSE To(k, First[tool])
  <1>4. client' = [client EXCEPT ![c] = r]
    BY <1>2
  <1>5. /\ k \in ClientState /\ k.tool = tool /\ k.calls = client[c].calls + 1
        /\ k.result = "none" /\ k.n = 0
    <2>1. PICK b \in BOOLEAN : ~b
      OBVIOUS
    <2> DEFINE calls == client[c].calls + 1
               k1 == [client[c] EXCEPT !.tool = tool, !.calls = calls, !.result = "none", !.n = 0]
               k2 == [k1 EXCEPT !.item = item, !.before = 0, !.page = Absent]
               k3 == [k2 EXCEPT !.done = b, !.blind = b, !.read = b]
    <2>2. k = k3
      BY <2>1, Zenon
    <2>3. calls \in Nat /\ calls = client[c].calls + 1
      BY <1>3
    <2> HIDE DEF calls
    <2>4. k1 \in ClientState /\ k1.tool = tool /\ k1.calls = client[c].calls + 1
          /\ k1.result = "none" /\ k1.n = 0
      BY <1>3, <2>3 DEF ClientState
    <2> HIDE DEF k1
    <2>5. k2 \in ClientState /\ k2.tool = tool /\ k2.calls = client[c].calls + 1
          /\ k2.result = "none" /\ k2.n = 0
      <3>1. k2 \in ClientState
        <4> DEFINE l == [k1 EXCEPT !.item = item]
                   m == [l EXCEPT !.before = 0]
        <4>1. l \in ClientState
          BY <2>4 DEF ClientState
        <4> HIDE DEF l
        <4>2. m \in ClientState
          BY <4>1 DEF ClientState
        <4> HIDE DEF m
        <4>3. [m EXCEPT !.page = Absent] \in ClientState
          BY <4>2 DEF ClientState
        <4>4. k2 = [m EXCEPT !.page = Absent]
          BY Zenon DEF l, m
        <4> QED
          BY <4>3, <4>4
      <3>2. k2.tool = k1.tool /\ k2.calls = k1.calls /\ k2.result = k1.result /\ k2.n = k1.n
        BY SMTT(30), <2>4 DEF ClientState
      <3> QED
        BY <2>4, <3>1, <3>2
    <2> HIDE DEF k2
    <2>6. k3 \in ClientState /\ k3.tool = tool /\ k3.calls = client[c].calls + 1
          /\ k3.result = "none" /\ k3.n = 0
      BY <2>5 DEF ClientState
    <2> QED
      BY <2>2, <2>6
  <1> HIDE DEF k
  <1>6. /\ CallInv(r, guest) /\ r.tool = tool /\ r.calls = client[c].calls + 1 /\ r.n = 0
        /\ r.result \in {"no", "none"}
    <2>1. CASE elsewhere \/ ~connected
      <3>1. r = End(k, "no") /\ r.result = "no"
        BY <1>5, <2>1 DEF End, ClientState
      <3> QED
        BY <1>5, <3>1, EndFits DEF Alike
    <2>2. CASE ~(elsewhere \/ ~connected)
      <3>1. r = To(k, First[tool]) /\ First[tool] \in Pcs
        BY <2>2, FirstIs DEF Tool, Pcs
      <3>2. k.calls > 0
        BY <1>3, <1>5
      <3> QED
        BY <1>5, <3>1, <3>2, FirstFits, ToIs DEF Alike
    <2> QED
      BY <2>1, <2>2
  <1> HIDE DEF r
  <1>7. r \in ClientState /\ r.calls <= plan.calls /\ r.calls \in Nat /\ r.calls > 0
    BY <1>1, <1>3, <1>6 DEF CallInv
  <1>8. /\ client' \in [Client -> ClientState] /\ client'[c] = r
        /\ \A d \in Client \ {c} : client'[d] = client[d]
    BY <1>3, <1>4, <1>7
  <1>9. TextOf(c, r, guest.typed)
    <2>1. CASE client[c].calls = 0
      <3>1. \A i \in DOMAIN guest.typed : guest.typed[i][1] # c
        BY <2>1 DEF IInv, TextOf
      <3> QED
        BY <1>6, <1>7, <3>1 DEF TextOf, InTurn
    <2>2. CASE client[c].calls # 0
      BY <1>3, <1>6, <1>7, <2>2 DEF TextOf
    <2> QED
      BY <2>1, <2>2
  <1>10. /\ GuestInv(guest', runs') /\ guest' = guest /\ plan' = plan /\ runs' \in Nat
         /\ faults' \in 0..plan.faults
    BY <1>1 DEF IInv
  <1>11. \A d \in Client \ {c} : CallInv(client[d], guest) /\ TextOf(d, client[d], guest.typed)
    BY DEF IInv
  <1> QED
    BY <1>6, <1>7, <1>8, <1>9, <1>10, <1>11, OneGoesOn

-----------------------------------------------------------------------------
(* The theorems *)

\* A guest that was used before, whose folder holds a daemon.
LEMMA FirstGuest ==
    ASSUME NEW item \in Items, NEW folder \in Folders0, NEW front \in {"reads", "stuck", "absent"},
           NEW g, g = [typed |-> <<>>, armed |-> Nobody, hits |-> 1, last |-> item,
                       req |-> 0, fetching |-> Absent, out |-> 0, log |-> 0,
                       folder |-> folder, front |-> front]
    PROVE  GuestInv(g, 0) /\ g.typed = <<>>
  <1>1. folder \in Folder /\ FolderInv(folder)
    <2>1. PICK next \in {"none", "before"}, last \in {"none", "before"} :
              folder = [live |-> "before", next |-> next, last |-> last, up |-> "live", mishap |-> FALSE]
      BY DEF Folders0
    <2>2. PICK b \in BOOLEAN :
              folder = [live |-> "before", next |-> next, last |-> last, up |-> "live", mishap |-> b]
      BY <2>1, Zenon
    <2> QED
      BY <2>2 DEF Folder, Binary, FolderInv, DaemonStays, Whole
  <1>2. /\ g.typed = <<>> /\ g.armed = Nobody /\ g.hits = 1 /\ g.last = item /\ g.req = 0
        /\ g.fetching = Absent /\ g.out = 0 /\ g.log = 0 /\ g.folder = folder /\ g.front = front
    OBVIOUS
  <1>3. <<>> \in Seq(Client \X (1..Chunks))
    OBVIOUS
  <1>4. g \in GuestState
    BY <1>1, <1>3 DEF GuestState, Run
  <1>5. PagesAgree(g, 0)
    BY <1>2 DEF PagesAgree, Absent
  <1> QED
    BY <1>1, <1>2, <1>4, <1>5 DEF GuestInv

\* A client that has not called yet.
LEMMA FirstClient ==
    ASSUME NEW item \in Items, NEW b \in BOOLEAN, ~b, NEW g, NEW c, NEW k,
           k = [pc |-> "idle", tool |-> "verb", calls |-> 0, result |-> "none", n |-> 0,
                item |-> item, before |-> 0, nonce |-> 0, page |-> Absent,
                done |-> b, blind |-> b, read |-> b]
    PROVE  CallInv(k, g) /\ k.calls = 0 /\ k.tool = "verb"
  <1>1. k \in ClientState
    BY DEF ClientState, Tool, Run
  <1>2. k.pc = "idle" /\ k.tool = "verb" /\ k.calls = 0 /\ k.result = "none"
    OBVIOUS
  <1> QED
    BY <1>1, <1>2 DEF CallInv, InCourse, ChoiceIsMarked, PageIsAhead, BinaryIsStaged, TargetIsProbed,
                      ReportIsTrue

\* It holds at first.
LEMMA IInvInit ==
    ASSUME Init
    PROVE  IInv
  <1>1. plan \in Plans /\ runs = 0 /\ faults = 0 /\ plan.faults \in Nat /\ plan.calls \in Nat
    BY ToolsAssumption DEF Init
  <1>2. GuestInv(guest, 0) /\ guest.typed = <<>>
    <2>1. PICK item \in Items, folder \in Folders0, front \in {"reads", "stuck", "absent"} :
              guest = [typed |-> <<>>, armed |-> Nobody, hits |-> 1, last |-> item,
                       req |-> 0, fetching |-> Absent, out |-> 0, log |-> 0,
                       folder |-> folder, front |-> front]
      BY Zenon DEF Init
    <2> QED
      BY <2>1, FirstGuest
  <1>3. PICK item \in Items, b \in BOOLEAN : ~b /\ client = [c \in Client |->
            [pc |-> "idle", tool |-> "verb", calls |-> 0, result |-> "none", n |-> 0,
             item |-> item, before |-> 0, nonce |-> 0, page |-> Absent,
             done |-> b, blind |-> b, read |-> b]]
    <2>1. PICK item \in Items : item = CHOOSE i \in Items : TRUE
      BY Zenon, ToolsAssumption
    <2>2. client = [c \in Client |->
            [pc |-> "idle", tool |-> "verb", calls |-> 0, result |-> "none", n |-> 0,
             item |-> item, before |-> 0, nonce |-> 0, page |-> Absent,
             done |-> FALSE, blind |-> FALSE, read |-> FALSE]]
      BY <2>1, Zenon DEF Init
    <2> QED
      BY <2>2, Zenon
  <1>4. \A c \in Client : client[c] = [pc |-> "idle", tool |-> "verb", calls |-> 0, result |-> "none",
             n |-> 0, item |-> item, before |-> 0, nonce |-> 0, page |-> Absent,
             done |-> b, blind |-> b, read |-> b]
    BY <1>3
  <1>5. ASSUME NEW c \in Client
        PROVE  CallInv(client[c], guest) /\ client[c].calls = 0 /\ client[c].tool = "verb"
    BY <1>3, <1>4, FirstClient
  <1>6. \A c \in Client : client[c] \in ClientState /\ client[c].calls <= plan.calls
    BY <1>1, <1>5 DEF CallInv
  <1>7. client \in [Client -> ClientState]
    <2>1. client = [c \in Client |-> client[c]]
      BY <1>3
    <2> QED
      BY <1>6, <2>1
  <1>8. ASSUME NEW c \in Client
        PROVE  TextOf(c, client[c], guest.typed)
    BY <1>2, <1>5 DEF TextOf
  <1> QED
    BY <1>1, <1>2, <1>5, <1>6, <1>7, <1>8 DEF IInv

\* Every step keeps it.
LEMMA IInvNext ==
    ASSUME IInv, [Next]_vars
    PROVE  IInv'
  <1>1. ASSUME NEW c \in Client, Step(c)
        PROVE  IInv'
    <2>1. CASE Verb(c) \/ ListDir(c) \/ Files(c) \/ TypeChunk(c)
      BY <2>1, VerbKeeps, ListDirKeeps, FilesKeeps, TypeChunkKeeps
    <2>2. CASE Adopt(c) \/ Before(c) \/ Arm(c) \/ Trigger(c) \/ Read(c) \/ After(c)
      BY <2>2, AdoptKeeps, BeforeKeeps, ArmKeeps, TriggerKeeps, ReadKeeps, AfterKeeps
    <2>3. CASE WriteReq(c) \/ LaunchGet(c) \/ Poll(c) \/ ReadOut(c)
      BY <2>3, WriteReqKeeps, LaunchGetKeeps, PollKeeps, ReadOutKeeps
    <2>4. CASE Home(c) \/ Stage(c) \/ Swap(c) \/ Reboot(c)
      BY <2>4, HomeKeeps, StageKeeps, SwapKeeps, RebootKeeps
    <2>5. CASE Probe(c) \/ Send(c)
      BY <2>5, ProbeKeeps, SendKeeps
    <2> QED
      BY <1>1, <2>1, <2>2, <2>3, <2>4, <2>5 DEF Step
  <1>2. ASSUME NEW c \in Client, NEW tool \in Tool, Begin(c, tool)
        PROVE  IInv'
    BY <1>2, BeginKeeps
  <1>3. CASE Open \/ FetchOut \/ FetchLog \/ Behave \/ Dies \/ Watchdog
    BY <1>3, OpenKeeps, FetchKeeps, BehaveKeeps, DaemonKeeps
  <1>4. CASE UNCHANGED vars
    BY <1>4 DEF vars, IInv
  <1> QED
    BY <1>1, <1>2, <1>3, <1>4 DEF Next

\* It is inductive.
LEMMA Inductive == Spec => []IInv
  <1>1. Init => IInv
    BY IInvInit
  <1>2. IInv /\ [Next]_vars => IInv'
    BY IInvNext
  <1> QED
    BY <1>1, <1>2, PTL DEF Spec

\* What is done piece by piece goes on only from a piece that is there, an event was sent to who
\* read, and no update leaves the guest without a daemon: for every number of agents, every text,
\* and every number of answers that are lost.
THEOREM ToolsHold == Spec => []ToolsInv
  <1>1. IInv => ToolsInv
    <2> SUFFICES ASSUME IInv
                 PROVE  ToolsInv
      OBVIOUS
    <2>1. TypeOK
      BY DEF IInv, GuestInv, TypeOK, Run
    <2>2. TextIsWhole
      BY DEF IInv, TextOf, TextIsWhole, Has
    <2>3. SentIsRead
      BY DEF IInv, CallInv, ReportIsTrue, Real, SentIsRead, Ended
    <2>4. DaemonStays(guest.folder)
      BY DEF IInv, GuestInv, FolderInv
    <2> QED
      BY <2>1, <2>2, <2>3, <2>4 DEF ToolsInv
  <1> QED
    BY <1>1, Inductive, PTL

\* A tool that reports success has had its effect, and the page an agent is given is not from
\* before its request, however the calls of any number of agents interleave.
THEOREM ResultsHold == Spec => []ResultsAreReal
  <1>1. IInv => ResultsAreReal
    BY DEF IInv, CallInv, ReportIsTrue, Real, ResultsAreReal, SuccessIsReal, PageIsNotOld, Ended
  <1> QED
    BY <1>1, Inductive, PTL

=============================================================================
