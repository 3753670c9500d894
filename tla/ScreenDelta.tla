---------------------------- MODULE ScreenDelta ----------------------------
(***************************************************************************)
(* The SCREENSHOT2 exchange: CaptureScreenshot2 in mac/src/screenshot.c,   *)
(* which keeps the last full frame and its generation and may answer with  *)
(* the rows that differ from it, and _request_screenshot_v2 in             *)
(* host/host_server.py, which keeps the last full frame it decoded and     *)
(* lays the difference over it.  The link is lost, and the daemon          *)
(* restarted, at any time.  The exchanges of a link are in step (what      *)
(* happens when they are not is BridgeLink's subject): this reader drops   *)
(* the link when it gives up.                                              *)
(***************************************************************************)
EXTENDS Display

CONSTANTS
    Slack,                                  \* modes whose rows are padded in memory
    MaxGen,                                 \* bound of the model: full captures
    NoFrame, NoMsg, NoRegion, NoPicture     \* null values

ASSUME DeltaAssumption ==
    /\ Slack \subseteq Mode
    /\ MaxGen \in Nat
    /\ NoFrame \notin Screen
    /\ NoRegion \notin Region
    /\ NoPicture \notin Picture

VARIABLES
    screen,     \* what the Macintosh shows
    guest,      \* gPrevFrame with its geometry, and gGen
    pending,    \* the request the daemon has to serve
    reply,      \* the reply on its way to the host
    host,       \* the link's state, shot_prev, and the region being asked for
    shot        \* what the last request_screenshot returned

vars == <<screen, guest, pending, reply, host, shot>>

-----------------------------------------------------------------------------
(* State *)

Gen     == 0..MaxGen
Request == [region : Region, delta : BOOLEAN, base : Gen]

\* An IMAGE2 frame: a picture, or the rows' difference from the generation before.
Image  == [what : {"image"}, pic : Picture, delta : BOOLEAN, gen : Gen]
Failed == [what |-> "failed"]

\* Nothing else travels.
ASSUME MessageAssumption == NoMsg \notin Request \union Image \union {Failed}

GuestState == [prev : Screen \union {NoFrame}, gen : Gen]
HostState  == [up : BOOLEAN, newLink : BOOLEAN, asked : Region \union {NoRegion},
               prev : Screen \union {NoFrame}, gen : Gen]

TypeOK ==
    /\ screen \in Screen
    /\ guest \in GuestState
    /\ pending \in Request \union {NoMsg}
    /\ reply \in Image \union {Failed, NoMsg}
    /\ host \in HostState
    /\ shot \in Picture \union {NoPicture}

Init ==
    /\ screen \in Screen
    /\ guest = [prev |-> NoFrame, gen |-> 0]
    /\ pending = NoMsg /\ reply = NoMsg
    /\ host = [up |-> FALSE, newLink |-> TRUE, asked |-> NoRegion, prev |-> NoFrame, gen |-> 0]
    /\ shot = NoPicture

Draw ==
    /\ screen' \in Screen \ {screen}
    /\ UNCHANGED <<guest, pending, reply, host, shot>>

-----------------------------------------------------------------------------
(* The host *)

\* Mutant: what was kept of the last link is used on this one.
Base_OfAnyLink == [prev |-> host.prev, gen |-> host.gen]

\* shot_prev, which a new link starts without.
Base == IF host.newLink THEN [prev |-> NoFrame, gen |-> 0] ELSE [prev |-> host.prev, gen |-> host.gen]

\* A whole screen may be answered by a difference when the host has a base.
HostRequest(r, delta) ==
    /\ host.up /\ host.asked = NoRegion
    /\ pending' = [region |-> r,
                   delta  |-> delta /\ r = Whole /\ Base.prev # NoFrame,
                   base   |-> IF delta /\ r = Whole THEN Base.gen ELSE 0]
    /\ host' = [up |-> TRUE, newLink |-> FALSE, asked |-> r, prev |-> Base.prev, gen |-> Base.gen]
    /\ shot' = NoPicture
    /\ UNCHANGED <<screen, guest, reply>>

IsFull(p) == p.lo = 1 /\ p.hi = Rows[p.mode]

\* The base fits the difference: the generation before it, in the same geometry.
HasBase(i) ==
    /\ host.prev # NoFrame
    /\ IsFull(i.pic)
    /\ host.gen + 1 = i.gen
    /\ host.prev.mode = i.pic.mode

\* Mutant: the rows that came are taken as they are.
Composed_Plain(i) == i.pic

\* apply_delta: the rows laid over the base.
Composed(i) ==
    IF i.delta THEN [i.pic EXCEPT !.pix = [y \in DOMAIN i.pic.pix |-> Xor(host.prev.pix[y], i.pic.pix[y])]]
               ELSE i.pic

\* decode_rows expects rows of a full frame at the screen's rowBytes; the daemon
\* sends them without the padding.
Decodes(i) == i.delta \/ ~(IsFull(i.pic) /\ i.pic.mode \in Slack)

Dropped == [host EXCEPT !.up = FALSE, !.asked = NoRegion]

HostReadsImage ==
    /\ reply \in Image
    /\ reply' = NoMsg
    /\ CASE reply.delta /\ ~HasBase(reply) -> shot' = NoPicture /\ host' = Dropped
         [] ~Decodes(reply)                -> shot' = NoPicture /\ host' = [host EXCEPT !.asked = NoRegion]
         [] OTHER ->
              /\ shot' = Composed(reply)
              /\ host' = IF IsFull(reply.pic)
                         THEN [host EXCEPT !.asked = NoRegion, !.gen = reply.gen,
                                           !.prev = [mode |-> shot'.mode, pix |-> shot'.pix]]
                         ELSE [host EXCEPT !.asked = NoRegion]
    /\ UNCHANGED <<screen, guest, pending>>

\* The failure frame declares one byte more than it has: the reader takes the
\* separator for text, waits for one more line, and times out.
HostReadsFailure ==
    /\ reply = Failed
    /\ reply' = NoMsg
    /\ shot' = NoPicture /\ host' = Dropped
    /\ UNCHANGED <<screen, guest, pending>>

\* A timeout drops the link; so does a peer that is gone.
LinkLost ==
    /\ host.up
    /\ reply' = NoMsg
    /\ host' = Dropped
    /\ shot' = IF host.asked = NoRegion THEN shot ELSE NoPicture
    /\ UNCHANGED <<screen, guest, pending>>

-----------------------------------------------------------------------------
(* The guest *)

\* Mutant: a region that runs over the edge is not cut.
Captured_Unclamped == [mode |-> screen.mode, lo |-> First(pending.region),
                       hi |-> IF pending.region.hi = 0 THEN Rows[screen.mode] ELSE pending.region.hi,
                       pix |-> [y \in First(pending.region)..pending.region.hi |->
                                   IF y <= Rows[screen.mode] THEN screen.pix[y] ELSE 0]]

\* The band is copied out before it is encoded.
Captured == Crop(screen, pending.region)

WantDelta ==
    /\ IsFull(Captured) /\ pending.delta
    /\ guest.prev # NoFrame /\ pending.base = guest.gen
    /\ guest.prev.mode = screen.mode

Difference ==
    [Captured EXCEPT !.pix = [y \in DOMAIN Captured.pix |-> Xor(guest.prev.pix[y], screen.pix[y])]]

Sends(m) == reply' = IF host.up THEN m ELSE NoMsg

\* A full frame is retained as the base of the next difference; a region is not.
GuestCaptures ==
    /\ pending # NoMsg
    /\ OnScreen(screen.mode, pending.region)
    /\ IF IsFull(Captured)
       THEN guest.gen < MaxGen /\ guest' = [prev |-> screen, gen |-> guest.gen + 1]
       ELSE guest' = guest
    /\ Sends([what |-> "image", gen |-> guest'.gen, delta |-> WantDelta,
              pic |-> IF WantDelta THEN Difference ELSE Captured])
    /\ pending' = NoMsg
    /\ UNCHANGED <<screen, host, shot>>

\* The region is off the screen, or there is no memory: nothing is retained.
GuestFails ==
    /\ pending # NoMsg
    /\ Sends(Failed)
    /\ pending' = NoMsg
    /\ UNCHANGED <<screen, guest, host, shot>>

\* Another link, once the daemon is done with the last one.
Reconnect ==
    /\ ~host.up /\ pending = NoMsg
    /\ host' = [host EXCEPT !.up = TRUE, !.newLink = TRUE]
    /\ UNCHANGED <<screen, guest, pending, reply, shot>>

\* The daemon dies and is relaunched with nothing retained.
GuestRestarts ==
    /\ guest' = [prev |-> NoFrame, gen |-> 0]
    /\ pending' = NoMsg /\ reply' = NoMsg
    /\ host' = Dropped
    /\ shot' = IF host.asked = NoRegion THEN shot ELSE NoPicture
    /\ UNCHANGED screen

Next ==
    \/ Draw
    \/ \E r \in Region, delta \in BOOLEAN : HostRequest(r, delta)
    \/ HostReadsImage \/ HostReadsFailure \/ LinkLost
    \/ GuestCaptures \/ GuestFails \/ Reconnect \/ GuestRestarts

Spec == Init /\ [][Next]_vars

-----------------------------------------------------------------------------
(* Properties *)

\* The frame the host keeps and the one the daemon retains are the same frame
\* whenever they bear the same generation of the same link.
BasesAgree ==
    ~host.newLink /\ host.up /\ host.prev # NoFrame =>
        /\ host.gen <= guest.gen
        /\ host.gen = guest.gen => host.prev = guest.prev

\* Whose turn it is: a request is with the daemon or its answer on the way, and
\* a link that is down carries nothing to the host.
TurnsAgree ==
    /\ host.asked = NoRegion => reply = NoMsg /\ (host.up => pending = NoMsg)
    /\ ~host.up \/ host.newLink => host.asked = NoRegion
    /\ host.asked # NoRegion /\ pending # NoMsg =>
          /\ reply = NoMsg
          /\ pending.region = host.asked
          /\ pending.delta => host.prev # NoFrame /\ pending.base = host.gen

\* A full frame on its way is the one the daemon has just retained.
Retained ==
    reply \in Image /\ IsFull(reply.pic) =>
        /\ guest.gen = reply.gen
        /\ host.prev # NoFrame => host.gen < reply.gen
        /\ guest.prev # NoFrame /\ guest.prev.mode = reply.pic.mode
        /\ reply.pic.pix = IF reply.delta
                           THEN [y \in 1..Rows[guest.prev.mode] |->
                                    Xor(host.prev.pix[y], guest.prev.pix[y])]
                           ELSE guest.prev.pix

\* "The host never guesses": a difference that arrives always fits the frame the
\* host holds, so the branch that drops the link for it is never taken.
DeltaFits == reply \in Image /\ reply.delta => HasBase(reply)

DeltaInv == TypeOK /\ TurnsAgree /\ BasesAgree /\ Retained /\ DeltaFits

\* The picture a reply in flight stands for.
Meant ==
    IF reply \notin Image THEN NoPicture
    ELSE IF reply.delta THEN [reply.pic EXCEPT !.pix = guest.prev.pix]
    ELSE reply.pic

FB == INSTANCE Framebuffer WITH asked <- host.asked, snap <- Meant

\* What is returned is what the screen showed, in one piece, at one moment of the
\* request: never a difference laid over the wrong frame, never an older picture.
ShowsTheScreen == FB!Spec

\* Not so of the code (README): a frame that reached the host is decoded; the rows carried are those of the
\* rectangle, rw*depth/8 bytes each.
EveryFrameDecodes == reply \in Image => Decodes(reply)

\* Nor this: a failure frame is read to its end, "never one line more": the link survives it.
FailureKeepsLink == [][reply = Failed /\ HostReadsFailure => host'.up]_vars

=============================================================================
