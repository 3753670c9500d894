------------------------- MODULE ScreenDeltaProofs -------------------------
(***************************************************************************)
(* Proofs about ScreenDelta, for every set of screen modes, any number of  *)
(* rows and any bound on the generations.  DeltaInv is inductive; that the *)
(* differences fit the host's frame, and that the exchange implements      *)
(* Framebuffer, follow from it.                                            *)
(***************************************************************************)
EXTENDS ScreenDelta, TLAPS

-----------------------------------------------------------------------------
(* Screens and pictures *)

\* What a screen consists of.
LEMMA ScreenParts ==
    ASSUME NEW s \in Screen
    PROVE  /\ s = [mode |-> s.mode, pix |-> s.pix]
           /\ s.mode \in Mode
           /\ s.pix \in [1..Rows[s.mode] -> Pixel]
  BY DEF Screen

\* Rows of one mode make a screen.
LEMMA ScreenMade ==
    ASSUME NEW m \in Mode, NEW f \in [1..Rows[m] -> Pixel]
    PROVE  [mode |-> m, pix |-> f] \in Screen
  <1>1. [mode |-> m, pix |-> f] \in [mode : {m}, pix : [1..Rows[m] -> Pixel]]
    OBVIOUS
  <1> QED
    BY <1>1 DEF Screen

\* Two rows combined twice give the row back.
LEMMA XorTwice ==
    ASSUME NEW a \in Pixel, NEW b \in Pixel
    PROVE  Xor(a, b) \in Pixel /\ Xor(a, Xor(a, b)) = b
  BY DEF Pixel, Xor

\* A region of a screen is a picture.
LEMMA CropIsPicture ==
    ASSUME NEW s \in Screen, NEW r \in Region
    PROVE  Crop(s, r) \in Picture /\ Crop(s, r).mode = s.mode
  <1>1. Crop(s, r) \in Picture
    BY DEF Picture
  <1>2. Crop(s, r).mode = s.mode
    BY DEF Crop
  <1> QED
    BY <1>1, <1>2

\* What a picture of a whole screen consists of.
LEMMA FullParts ==
    ASSUME NEW p \in Picture, IsFull(p)
    PROVE  /\ p = [mode |-> p.mode, lo |-> p.lo, hi |-> p.hi, pix |-> p.pix]
           /\ p.mode \in Mode
           /\ p.pix \in [1..Rows[p.mode] -> Pixel]
  <1>1. PICK s \in Screen, r \in Region : p = Crop(s, r)
    BY DEF Picture
  <1>2. /\ p.mode = s.mode
        /\ p.pix = [y \in p.lo..p.hi |-> s.pix[y]]
        /\ p = [mode |-> p.mode, lo |-> p.lo, hi |-> p.hi, pix |-> p.pix]
    BY <1>1 DEF Crop
  <1>3. p.pix = [y \in 1..Rows[s.mode] |-> s.pix[y]]
    BY <1>2 DEF IsFull
  <1> QED
    BY <1>2, <1>3, ScreenParts

\* A picture whose rows are those of a whole screen is a picture.
LEMMA FullMade ==
    ASSUME NEW m \in Mode, NEW f \in [1..Rows[m] -> Pixel]
    PROVE  [mode |-> m, lo |-> 1, hi |-> Rows[m], pix |-> f] \in Picture
  <1> DEFINE s == [mode |-> m, pix |-> f]
  <1>1. s \in Screen
    BY ScreenMade
  <1>2. Whole \in Region
    BY DEF Region
  <1>3. First(Whole) = 1 /\ Last(m, Whole) = Rows[m]
    BY DEF First, Last, Whole
  <1>4. Crop(s, Whole) = [mode |-> m, lo |-> 1, hi |-> Rows[m], pix |-> [y \in 1..Rows[m] |-> f[y]]]
    BY <1>3 DEF Crop
  <1>5. [y \in 1..Rows[m] |-> f[y]] = f
    OBVIOUS
  <1>6. Crop(s, Whole) \in Picture
    BY <1>1, <1>2, CropIsPicture
  <1> QED
    BY <1>4, <1>5, <1>6

\* Changing the rows of a picture of a whole screen keeps it one.
LEMMA FullRows ==
    ASSUME NEW p \in Picture, IsFull(p), NEW f \in [1..Rows[p.mode] -> Pixel]
    PROVE  /\ [p EXCEPT !.pix = f] \in Picture
           /\ [p EXCEPT !.pix = f] = [mode |-> p.mode, lo |-> 1, hi |-> Rows[p.mode], pix |-> f]
  <1>1. [p EXCEPT !.pix = f] = [mode |-> p.mode, lo |-> 1, hi |-> Rows[p.mode], pix |-> f]
    BY FullParts DEF IsFull
  <1> QED
    BY <1>1, FullMade, FullParts

\* The null message is no request and no reply.
LEMMA NullMessage == NoMsg \notin Request /\ NoMsg \notin Image /\ NoMsg # Failed /\ Failed \notin Image
  BY MessageAssumption DEF Failed, Image

-----------------------------------------------------------------------------
(* The capture *)

\* What the daemon sends is a picture, and of a whole screen when it says so.
LEMMA CaptureTyped ==
    ASSUME TypeOK, pending # NoMsg
    PROVE  /\ Captured \in Picture /\ Captured.mode = screen.mode
           /\ WantDelta => /\ Difference \in Picture
                           /\ IsFull(Difference) /\ Difference.mode = screen.mode
                           /\ Difference.pix = [y \in 1..Rows[screen.mode] |->
                                                   Xor(guest.prev.pix[y], screen.pix[y])]
           /\ IsFull(Captured) => Captured.pix = screen.pix
  <1>1. pending.region \in Region /\ screen \in Screen
    BY DEF TypeOK, Request
  <1>2. Captured \in Picture /\ Captured.mode = screen.mode
    BY <1>1, CropIsPicture DEF Captured
  <1>3. ASSUME IsFull(Captured) PROVE Captured.pix = screen.pix
    <2>1. Captured.pix = [y \in Captured.lo..Captured.hi |-> screen.pix[y]]
      BY DEF Captured, Crop
    <2> QED
      BY <1>1, <1>2, <1>3, <2>1, ScreenParts DEF IsFull
  <1>4. ASSUME WantDelta
        PROVE  /\ Difference \in Picture
               /\ IsFull(Difference) /\ Difference.mode = screen.mode
               /\ Difference.pix = [y \in 1..Rows[screen.mode] |->
                                       Xor(guest.prev.pix[y], screen.pix[y])]
    <2> DEFINE f == [y \in 1..Rows[screen.mode] |-> Xor(guest.prev.pix[y], screen.pix[y])]
    <2>1. IsFull(Captured) /\ guest.prev \in Screen /\ guest.prev.mode = screen.mode
      BY <1>4 DEF WantDelta, TypeOK, GuestState
    <2>2. screen.pix \in [1..Rows[screen.mode] -> Pixel] /\ guest.prev.pix \in [1..Rows[screen.mode] -> Pixel]
      BY <1>1, <2>1, ScreenParts
    <2>3. f \in [1..Rows[screen.mode] -> Pixel]
      BY <2>2, XorTwice
    <2>4. DOMAIN Captured.pix = 1..Rows[screen.mode]
      BY <1>3, <2>1, <2>2
    <2>5. Difference = [Captured EXCEPT !.pix = f]
      BY <2>4 DEF Difference
    <2> HIDE DEF f
    <2>6. /\ Difference \in Picture
          /\ Difference = [mode |-> screen.mode, lo |-> 1, hi |-> Rows[screen.mode], pix |-> f]
      BY <1>2, <2>1, <2>3, <2>5, FullRows
    <2> QED
      BY <2>6 DEF IsFull, f
  <1> QED
    BY <1>2, <1>3, <1>4

\* A request that a link still waits for is answered with nothing under way yet.
LEMMA Serving ==
    ASSUME DeltaInv, pending # NoMsg
    PROVE  /\ pending \in Request
           /\ host.up => /\ host.asked # NoRegion /\ ~host.newLink
                         /\ host.asked = pending.region
                         /\ pending.delta => host.prev # NoFrame /\ pending.base = host.gen
           /\ reply = NoMsg
  BY NullMessage DEF DeltaInv, TypeOK, TurnsAgree, HostState

\* What the daemon sends, for a link that is up.
LEMMA Captures ==
    ASSUME DeltaInv, GuestCaptures, host.up
    PROVE  /\ reply' = [what |-> "image", gen |-> guest'.gen, delta |-> WantDelta,
                        pic |-> IF WantDelta THEN Difference ELSE Captured]
           /\ reply'.gen = guest'.gen /\ reply'.delta = WantDelta
           /\ reply'.pic = IF WantDelta THEN Difference ELSE Captured
           /\ reply' \in Image
  <1>1. /\ reply' = [what |-> "image", gen |-> guest'.gen, delta |-> WantDelta,
                     pic |-> IF WantDelta THEN Difference ELSE Captured]
    BY DEF GuestCaptures, Sends
  <1>2. WantDelta \in BOOLEAN
    BY DEF WantDelta
  <1>3. (IF WantDelta THEN Difference ELSE Captured) \in Picture
    BY CaptureTyped DEF DeltaInv, GuestCaptures
  <1>4. guest'.gen \in Gen
    BY DeltaAssumption DEF GuestCaptures, DeltaInv, TypeOK, GuestState, Gen
  <1> QED
    BY <1>1, <1>2, <1>3, <1>4 DEF Image

-----------------------------------------------------------------------------
(* The inductive invariant *)

\* The base a request starts from is one of the link's own.
LEMMA BaseTyped ==
    ASSUME TypeOK
    PROVE  /\ Base.prev \in Screen \union {NoFrame} /\ Base.gen \in Gen
           /\ Base.prev # NoFrame => ~host.newLink /\ Base.prev = host.prev /\ Base.gen = host.gen
  <1>1. 0 \in Gen
    BY DeltaAssumption DEF Gen
  <1> QED
    BY <1>1 DEF Base, TypeOK, HostState

\* The frame the host keeps after a full one is the frame the daemon retains.
LEMMA FrameKept ==
    ASSUME DeltaInv, reply \in Image, IsFull(reply.pic)
    PROVE  /\ Composed(reply) = [mode |-> guest.prev.mode, lo |-> 1, hi |-> Rows[guest.prev.mode],
                                 pix |-> guest.prev.pix]
           /\ Composed(reply) = Meant
           /\ guest.prev \in Screen
           /\ Composed(reply) \in Picture
  <1> DEFINE p == reply.pic
             g == guest.prev
  <1>1. /\ p \in Picture /\ g \in Screen
        /\ g.mode = p.mode
        /\ reply.delta \in BOOLEAN
        /\ p.lo = 1 /\ p.hi = Rows[g.mode]
    BY DEF DeltaInv, TypeOK, Image, GuestState, Retained, IsFull
  <1>2. g.pix \in [1..Rows[g.mode] -> Pixel] /\ g.mode \in Mode
    BY <1>1, ScreenParts
  <1>3. p = [mode |-> g.mode, lo |-> 1, hi |-> Rows[g.mode], pix |-> p.pix]
    BY <1>1, FullParts
  <1>4. CASE ~reply.delta
    <2>1. p.pix = g.pix
      BY <1>4 DEF DeltaInv, Retained
    <2>2. Composed(reply) = p /\ Meant = p
      BY <1>4 DEF Composed, Meant
    <2> QED
      BY <1>1, <1>3, <2>1, <2>2
  <1>5. CASE reply.delta
    <2> DEFINE h == host.prev
    <2>1. h \in Screen /\ h.mode = g.mode
      BY <1>1, <1>5 DEF DeltaInv, DeltaFits, HasBase, TypeOK, HostState
    <2>2. h.pix \in [1..Rows[g.mode] -> Pixel]
      BY <2>1, ScreenParts
    <2>3. p.pix = [y \in 1..Rows[g.mode] |-> Xor(h.pix[y], g.pix[y])]
      BY <1>5 DEF DeltaInv, Retained
    <2> DEFINE f == [y \in DOMAIN p.pix |-> Xor(h.pix[y], p.pix[y])]
    <2>4. f = [y \in 1..Rows[g.mode] |-> Xor(h.pix[y], Xor(h.pix[y], g.pix[y]))]
      BY <2>3
    <2>5. f = g.pix
      <3>1. \A y \in 1..Rows[g.mode] : Xor(h.pix[y], Xor(h.pix[y], g.pix[y])) = g.pix[y]
        BY <1>2, <2>2, XorTwice
      <3>2. f = [y \in 1..Rows[g.mode] |-> g.pix[y]]
        BY <2>4, <3>1
      <3> QED
        BY <1>2, <3>2
    <2>6. Composed(reply) = [p EXCEPT !.pix = f]
      BY <1>5 DEF Composed
    <2>7. Composed(reply) = [p EXCEPT !.pix = g.pix] /\ Meant = [p EXCEPT !.pix = g.pix]
      <3>1. Meant = [p EXCEPT !.pix = g.pix]
        BY <1>5 DEF Meant
      <3> HIDE DEF f
      <3> QED
        BY <2>5, <2>6, <3>1
    <2> QED
      BY <1>1, <1>2, <2>7, FullRows
  <1> QED
    BY <1>1, <1>4, <1>5

LEMMA InitInv == Init => DeltaInv
  <1>1. 0 \in Gen
    BY DeltaAssumption DEF Gen
  <1> QED
    BY <1>1, NullMessage DEF Init, DeltaInv, TypeOK, GuestState, HostState, TurnsAgree, BasesAgree,
       Retained, DeltaFits

\* A request.
LEMMA RequestInv ==
    ASSUME DeltaInv, NEW r \in Region, NEW delta \in BOOLEAN, HostRequest(r, delta)
    PROVE  DeltaInv'
  <1>1. host.up /\ host.asked = NoRegion /\ reply = NoMsg /\ pending = NoMsg
    BY DEF DeltaInv, TurnsAgree, HostRequest
  <1>2. /\ host' = [up |-> TRUE, newLink |-> FALSE, asked |-> r, prev |-> Base.prev, gen |-> Base.gen]
        /\ pending' = [region |-> r, delta |-> delta /\ r = Whole /\ Base.prev # NoFrame,
                       base |-> IF delta /\ r = Whole THEN Base.gen ELSE 0]
        /\ reply' = reply /\ guest' = guest /\ screen' = screen /\ shot' = NoPicture
    BY DEF HostRequest
  <1>3. r # NoRegion
    BY DeltaAssumption
  <1>4. 0 \in Gen
    BY DeltaAssumption DEF Gen
  <1>5. TypeOK'
    <2>1. host' \in HostState
      BY <1>2, BaseTyped DEF HostState, DeltaInv
    <2>2. pending' \in Request
      BY <1>2, <1>4, BaseTyped DEF Request, DeltaInv
    <2> QED
      BY <1>2, <2>1, <2>2 DEF DeltaInv, TypeOK
  <1>6. TurnsAgree'
    BY <1>1, <1>2, <1>3 DEF TurnsAgree
  <1>7. BasesAgree'
    BY <1>1, <1>2, BaseTyped DEF BasesAgree, DeltaInv
  <1>8. Retained' /\ DeltaFits'
    BY <1>1, <1>2, NullMessage DEF Retained, DeltaFits
  <1> QED
    BY <1>5, <1>6, <1>7, <1>8 DEF DeltaInv

\* A capture.
LEMMA CaptureInv ==
    ASSUME DeltaInv, GuestCaptures
    PROVE  DeltaInv'
  <1>1. /\ pending # NoMsg /\ pending' = NoMsg
        /\ screen' = screen /\ host' = host /\ shot' = shot
        /\ IF IsFull(Captured) THEN guest.gen < MaxGen /\ guest' = [prev |-> screen, gen |-> guest.gen + 1]
                               ELSE guest' = guest
    BY DEF GuestCaptures
  <1>2. ~host.up => reply' = NoMsg
    BY DEF GuestCaptures, Sends
  <1>3. guest' \in GuestState
    BY <1>1, DeltaAssumption DEF DeltaInv, TypeOK, GuestState, Gen
  <1>4. TypeOK'
    BY <1>1, <1>2, <1>3, Captures DEF DeltaInv, TypeOK
  <1>5. TurnsAgree'
    BY <1>1, <1>2, Serving DEF DeltaInv, TurnsAgree
  <1>6. BasesAgree'
    BY <1>1, <1>3 DEF DeltaInv, BasesAgree, TypeOK, GuestState, HostState, Gen
  <1>7. ASSUME reply' \in Image PROVE host.up
    BY <1>2, <1>7, NullMessage
  <1>8. ASSUME WantDelta
        PROVE  /\ IsFull(Captured) /\ guest.prev \in Screen /\ guest.prev.mode = screen.mode
               /\ host.up => host.prev = guest.prev /\ host.gen = guest.gen
    <2>1. IsFull(Captured) /\ guest.prev \in Screen /\ guest.prev.mode = screen.mode
      BY <1>8 DEF WantDelta, DeltaInv, TypeOK, GuestState
    <2>2. pending.delta /\ pending.base = guest.gen
      BY <1>8 DEF WantDelta
    <2>3. ASSUME host.up PROVE host.prev = guest.prev /\ host.gen = guest.gen
      BY <1>1, <2>2, <2>3, Serving DEF DeltaInv, BasesAgree
    <2> QED
      BY <2>1, <2>3
  <1>9. ASSUME reply' \in Image, IsFull(reply'.pic)
        PROVE  /\ IsFull(Captured)
               /\ reply'.pic.mode = screen.mode
               /\ guest' = [prev |-> screen, gen |-> guest.gen + 1]
               /\ reply'.gen = guest.gen + 1
    <2>1. reply'.pic = IF WantDelta THEN Difference ELSE Captured
      BY <1>7, <1>9, Captures
    <2>2. IsFull(Captured)
      BY <1>8, <1>9, <2>1
    <2>3. reply'.pic.mode = screen.mode
      BY <1>1, <2>1, CaptureTyped DEF DeltaInv
    <2> QED
      BY <1>1, <1>7, <1>9, <2>2, <2>3, Captures
  <1>10. Retained'
    <2> SUFFICES ASSUME reply' \in Image, IsFull(reply'.pic)
                 PROVE  /\ guest'.gen = reply'.gen
                        /\ host'.prev # NoFrame => host'.gen < reply'.gen
                        /\ guest'.prev # NoFrame /\ guest'.prev.mode = reply'.pic.mode
                        /\ reply'.pic.pix = IF reply'.delta
                               THEN [y \in 1..Rows[guest'.prev.mode] |->
                                        Xor(host'.prev.pix[y], guest'.prev.pix[y])]
                               ELSE guest'.prev.pix
      BY DEF Retained, IsFull
    <2>1. host.up
      BY <1>7
    <2>2. guest'.prev = screen /\ guest'.gen = guest.gen + 1 /\ reply'.gen = guest.gen + 1
      BY <1>9
    <2>3. screen # NoFrame
      BY DeltaAssumption DEF DeltaInv, TypeOK
    <2>4. host.prev # NoFrame => host.gen < guest.gen + 1
      BY <1>1, <2>1, Serving DEF DeltaInv, BasesAgree, TypeOK, HostState, GuestState, Gen
    <2>5. CASE WantDelta
      <3>1. reply'.delta /\ reply'.pic = Difference
        BY <2>1, <2>5, Captures
      <3>2. host.prev = guest.prev
        BY <1>8, <2>1, <2>5
      <3>3. reply'.pic.pix = [y \in 1..Rows[screen.mode] |-> Xor(guest.prev.pix[y], screen.pix[y])]
        BY <1>1, <2>5, <3>1, CaptureTyped DEF DeltaInv
      <3> QED
        BY <1>1, <1>9, <2>2, <2>3, <2>4, <3>1, <3>2, <3>3
    <2>6. CASE ~WantDelta
      <3>1. ~reply'.delta /\ reply'.pic = Captured
        BY <2>1, <2>6, Captures
      <3>2. Captured.pix = screen.pix
        BY <1>1, <1>9, CaptureTyped DEF DeltaInv
      <3> QED
        BY <1>1, <1>9, <2>2, <2>3, <2>4, <3>1, <3>2
    <2> QED
      BY <2>5, <2>6
  <1>11. DeltaFits'
    <2> SUFFICES ASSUME reply' \in Image, reply'.delta
                 PROVE  /\ host'.prev # NoFrame /\ IsFull(reply'.pic)
                        /\ host'.gen + 1 = reply'.gen
                        /\ host'.prev.mode = reply'.pic.mode
      BY DEF DeltaFits, HasBase, IsFull
    <2>1. WantDelta /\ reply'.pic = Difference
      BY <1>7, Captures
    <2>2. IsFull(reply'.pic)
      BY <1>1, <2>1, CaptureTyped DEF DeltaInv
    <2>3. host.prev = guest.prev /\ host.gen = guest.gen
      BY <1>7, <1>8, <2>1
    <2> QED
      BY <1>1, <1>8, <1>9, <2>1, <2>2, <2>3, DeltaAssumption
  <1> QED
    BY <1>4, <1>5, <1>6, <1>10, <1>11 DEF DeltaInv

\* A reply that is read.
LEMMA ReadInv ==
    ASSUME DeltaInv, HostReadsImage
    PROVE  DeltaInv'
  <1>1. /\ reply \in Image /\ reply' = NoMsg
        /\ screen' = screen /\ guest' = guest /\ pending' = pending
    BY DEF HostReadsImage
  <1>2. host.asked # NoRegion /\ pending = NoMsg /\ host.up /\ ~host.newLink
    BY <1>1, NullMessage DEF DeltaInv, TurnsAgree
  <1>3. \/ shot' = NoPicture /\ host' = Dropped
        \/ shot' = NoPicture /\ host' = [host EXCEPT !.asked = NoRegion]
        \/ /\ shot' = Composed(reply)
           /\ ~IsFull(reply.pic) /\ ~reply.delta
           /\ host' = [host EXCEPT !.asked = NoRegion]
        \/ /\ shot' = Composed(reply)
           /\ IsFull(reply.pic)
           /\ host' = [host EXCEPT !.asked = NoRegion, !.gen = reply.gen,
                                   !.prev = [mode |-> shot'.mode, pix |-> shot'.pix]]
    <2>1. CASE reply.delta /\ ~HasBase(reply)
      BY <2>1 DEF HostReadsImage
    <2>2. CASE ~Decodes(reply)
      BY <2>2 DEF HostReadsImage, Decodes
    <2>3. CASE ~(reply.delta /\ ~HasBase(reply)) /\ Decodes(reply)
      <3>1. /\ shot' = Composed(reply)
            /\ host' = IF IsFull(reply.pic)
                       THEN [host EXCEPT !.asked = NoRegion, !.gen = reply.gen,
                                         !.prev = [mode |-> shot'.mode, pix |-> shot'.pix]]
                       ELSE [host EXCEPT !.asked = NoRegion]
        BY <2>3 DEF HostReadsImage
      <3> QED
        BY <2>3, <3>1 DEF HasBase
    <2> QED
      BY <2>1, <2>2, <2>3
  <1>4. host \in HostState /\ NoRegion \notin Region
    BY DeltaAssumption DEF DeltaInv, TypeOK
  <1>5. ASSUME IsFull(reply.pic)
        PROVE  [mode |-> Composed(reply).mode, pix |-> Composed(reply).pix] = guest.prev
    <2>1. Composed(reply) = [mode |-> guest.prev.mode, lo |-> 1, hi |-> Rows[guest.prev.mode],
                             pix |-> guest.prev.pix]
      BY <1>1, <1>5, FrameKept
    <2>2. guest.prev = [mode |-> guest.prev.mode, pix |-> guest.prev.pix]
      BY <1>1, <1>5, FrameKept, ScreenParts
    <2> QED
      BY <2>1, <2>2
  <1>6. host' \in HostState /\ host'.asked = NoRegion
    BY <1>1, <1>3, <1>4, <1>5, FrameKept DEF HostState, Dropped, Image
  <1>7. shot' \in Picture \union {NoPicture}
    <2>1. IsFull(reply.pic) => Composed(reply) \in Picture
      BY <1>1, FrameKept
    <2>2. ~reply.delta => Composed(reply) \in Picture
      BY <1>1 DEF Composed, Image
    <2> QED
      BY <1>3, <2>1, <2>2
  <1>8. TypeOK'
    BY <1>1, <1>6, <1>7 DEF DeltaInv, TypeOK
  <1>9. TurnsAgree'
    BY <1>1, <1>2, <1>6 DEF TurnsAgree
  <1>10. BasesAgree'
    <2>1. CASE shot' = Composed(reply) /\ IsFull(reply.pic)
               /\ host' = [host EXCEPT !.asked = NoRegion, !.gen = reply.gen,
                                       !.prev = [mode |-> shot'.mode, pix |-> shot'.pix]]
      <3>1. host'.gen = reply.gen /\ host'.prev = guest.prev
        BY <1>4, <1>5, <2>1 DEF HostState
      <3>2. guest.gen = reply.gen /\ reply.gen \in Nat
        BY <1>1, <2>1, DeltaAssumption DEF DeltaInv, Retained, Image, Gen
      <3> QED
        BY <1>1, <3>1, <3>2 DEF BasesAgree
    <2>2. CASE host' = Dropped \/ host' = [host EXCEPT !.asked = NoRegion]
      BY <1>1, <1>4, <2>2 DEF DeltaInv, BasesAgree, Dropped, HostState
    <2> QED
      BY <1>3, <2>1, <2>2
  <1>11. Retained' /\ DeltaFits'
    BY <1>1, NullMessage DEF Retained, DeltaFits
  <1> QED
    BY <1>8, <1>9, <1>10, <1>11 DEF DeltaInv

\* A step after which nothing is on its way to a link that is down.
LEMMA DropInv ==
    ASSUME DeltaInv, host' = Dropped, reply' = NoMsg, shot' \in Picture \union {NoPicture},
           pending' \in {pending, NoMsg}, guest' \in GuestState, screen' = screen
    PROVE  DeltaInv'
  <1>1. host' \in HostState /\ ~host'.up /\ host'.asked = NoRegion
    BY DEF DeltaInv, TypeOK, HostState, Dropped
  <1>2. TypeOK'
    BY <1>1 DEF DeltaInv, TypeOK
  <1>3. TurnsAgree' /\ BasesAgree'
    BY <1>1 DEF TurnsAgree, BasesAgree
  <1>4. Retained' /\ DeltaFits'
    BY NullMessage DEF Retained, DeltaFits
  <1> QED
    BY <1>2, <1>3, <1>4 DEF DeltaInv

LEMMA NextInv == DeltaInv /\ [Next]_vars => DeltaInv'
  <1> SUFFICES ASSUME DeltaInv, [Next]_vars PROVE DeltaInv'
    OBVIOUS
  <1>1. CASE Draw
    <2>1. /\ screen' \in Screen
          /\ guest' = guest /\ pending' = pending /\ reply' = reply /\ host' = host /\ shot' = shot
      BY <1>1 DEF Draw
    <2> QED
      BY <2>1 DEF DeltaInv, TypeOK, TurnsAgree, BasesAgree, Retained, DeltaFits, HasBase, IsFull
  <1>2. CASE \E r \in Region, delta \in BOOLEAN : HostRequest(r, delta)
    BY <1>2, RequestInv
  <1>3. CASE HostReadsImage
    BY <1>3, ReadInv
  <1>4. CASE HostReadsFailure
    <2>1. guest \in GuestState
      BY DEF DeltaInv, TypeOK
    <2> QED
      BY <1>4, <2>1, DropInv DEF HostReadsFailure
  <1>5. CASE LinkLost
    <2>1. guest \in GuestState /\ shot \in Picture \union {NoPicture}
      BY DEF DeltaInv, TypeOK
    <2> QED
      BY <1>5, <2>1, DropInv DEF LinkLost
  <1>6. CASE GuestCaptures
    BY <1>6, CaptureInv
  <1>7. CASE GuestFails
    <2>1. /\ pending # NoMsg /\ pending' = NoMsg
          /\ reply' = IF host.up THEN Failed ELSE NoMsg
          /\ screen' = screen /\ guest' = guest /\ host' = host /\ shot' = shot
      BY <1>7 DEF GuestFails, Sends
    <2>2. reply' \notin Image
      BY <2>1, NullMessage
    <2>3. TypeOK' /\ Retained' /\ DeltaFits'
      BY <2>1, <2>2 DEF DeltaInv, TypeOK, Retained, DeltaFits
    <2>4. TurnsAgree' /\ BasesAgree'
      BY <2>1, Serving DEF DeltaInv, TurnsAgree, BasesAgree
    <2> QED
      BY <2>3, <2>4 DEF DeltaInv
  <1>8. CASE Reconnect
    <2>1. /\ ~host.up /\ pending = NoMsg
          /\ host' = [host EXCEPT !.up = TRUE, !.newLink = TRUE]
          /\ screen' = screen /\ guest' = guest /\ pending' = pending /\ reply' = reply /\ shot' = shot
      BY <1>8 DEF Reconnect
    <2>2. host.asked = NoRegion /\ reply = NoMsg /\ host \in HostState
      BY <2>1 DEF DeltaInv, TurnsAgree, TypeOK
    <2>3. host' \in HostState /\ host'.asked = NoRegion /\ host'.newLink /\ host'.up
      BY <2>1, <2>2 DEF HostState
    <2>4. TypeOK' /\ TurnsAgree' /\ BasesAgree'
      BY <2>1, <2>2, <2>3 DEF DeltaInv, TypeOK, TurnsAgree, BasesAgree
    <2>5. Retained' /\ DeltaFits'
      BY <2>1, <2>2, NullMessage DEF Retained, DeltaFits
    <2> QED
      BY <2>4, <2>5 DEF DeltaInv
  <1>9. CASE GuestRestarts
    <2>1. [prev |-> NoFrame, gen |-> 0] \in GuestState
      BY DeltaAssumption DEF GuestState, Gen
    <2>2. shot \in Picture \union {NoPicture}
      BY DEF DeltaInv, TypeOK
    <2> QED
      BY <1>9, <2>1, <2>2, DropInv DEF GuestRestarts
  <1>10. CASE UNCHANGED vars
    BY <1>10 DEF vars, DeltaInv, TypeOK, TurnsAgree, BasesAgree, Retained, DeltaFits, HasBase, IsFull
  <1> QED
    BY <1>1, <1>2, <1>3, <1>4, <1>5, <1>6, <1>7, <1>8, <1>9, <1>10 DEF Next

\* The two ends agree on the frame a generation names as long as the link that
\* brought it lasts, and a frame under way is the one the daemon has just retained.
THEOREM DeltaInvariant == Spec => []DeltaInv
  BY InitInv, NextInv, PTL DEF Spec

\* A difference that arrives fits the frame the host holds: the branch of
\* _request_screenshot_v2 that drops the link for it is never taken.
THEOREM DeltasFit == Spec => []DeltaFits
  <1>1. DeltaInv => DeltaFits
    BY DEF DeltaInv
  <1> QED
    BY <1>1, DeltaInvariant, PTL

-----------------------------------------------------------------------------
(* The exchange implements Framebuffer *)

\* Framebuffer speaks of the same screens.
LEMMA SameDisplay ==
    /\ FB!Screen = Screen
    /\ FB!Region = Region
    /\ \A m \in Mode, r \in Region : FB!OnScreen(m, r) = OnScreen(m, r)
    /\ \A s \in Screen, r \in Region : FB!Crop(s, r) = Crop(s, r)
  <1>1. FB!Screen = Screen
    BY DEF FB!Screen, Screen, FB!Pixel, Pixel
  <1>2. FB!Region = Region
    BY DEF FB!Region, Region, FB!Whole, Whole, FB!Bands, Bands
  <1>3. \A m, r : FB!OnScreen(m, r) = OnScreen(m, r)
    BY DEF FB!OnScreen, OnScreen, FB!First, First
  <1>4. \A s, r : FB!Crop(s, r) = Crop(s, r)
    BY DEF FB!Crop, Crop, FB!First, First, FB!Last, Last
  <1> QED
    BY <1>1, <1>2, <1>3, <1>4

LEMMA InitRefines == Init => FB!Init
  BY NullMessage, SameDisplay DEF Init, FB!Init, Meant

\* An exchange that ends without a picture.
LEMMA GivesUp ==
    ASSUME DeltaInv, host' = Dropped, reply' = NoMsg, screen' = screen,
           shot' = IF host.asked = NoRegion THEN shot ELSE NoPicture
    PROVE  [FB!Next]_FB!vars
  <1>1. host'.asked = NoRegion
    BY DEF DeltaInv, TypeOK, HostState, Dropped
  <1>2. Meant' = NoPicture
    BY NullMessage DEF Meant
  <1>3. CASE host.asked = NoRegion
    <2>1. Meant = NoPicture
      BY <1>3, NullMessage DEF Meant, DeltaInv, TurnsAgree
    <2> QED
      BY <1>1, <1>2, <1>3, <2>1 DEF FB!vars
  <1>4. CASE host.asked # NoRegion
    BY <1>1, <1>2, <1>4 DEF FB!Next, FB!Answer
  <1> QED
    BY <1>3, <1>4

LEMMA NextRefines == DeltaInv /\ [Next]_vars => [FB!Next]_FB!vars
  <1> SUFFICES ASSUME DeltaInv, [Next]_vars PROVE [FB!Next]_FB!vars
    OBVIOUS
  <1>1. CASE Draw
    <2>1. /\ screen' \in Screen
          /\ guest' = guest /\ reply' = reply /\ host' = host /\ shot' = shot
      BY <1>1 DEF Draw
    <2>2. Meant' = Meant
      BY <2>1 DEF Meant
    <2> QED
      BY <2>1, <2>2, SameDisplay DEF FB!Next, FB!Draw
  <1>2. ASSUME NEW r \in Region, NEW delta \in BOOLEAN, HostRequest(r, delta)
        PROVE  [FB!Next]_FB!vars
    <2>1. /\ host.asked = NoRegion /\ host'.asked = r
          /\ shot' = NoPicture /\ screen' = screen /\ reply' = reply /\ guest' = guest
      BY <1>2 DEF HostRequest
    <2>2. Meant' = Meant
      BY <2>1 DEF Meant
    <2> QED
      BY <2>1, <2>2, SameDisplay DEF FB!Next, FB!Ask
  <1>3. CASE HostReadsImage
    <2>1. reply \in Image /\ reply' = NoMsg /\ screen' = screen
      BY <1>3 DEF HostReadsImage
    <2>2. host.asked # NoRegion
      BY <2>1, NullMessage DEF DeltaInv, TurnsAgree
    <2>3. Meant' = NoPicture
      BY <2>1, NullMessage DEF Meant
    <2>4. host'.asked = NoRegion
      BY <1>3 DEF HostReadsImage, Dropped, DeltaInv, TypeOK, HostState
    <2>5. shot' \in {Meant, NoPicture}
      <3>1. CASE reply.delta /\ ~HasBase(reply)
        BY <1>3, <3>1 DEF HostReadsImage
      <3>2. CASE ~Decodes(reply)
        BY <1>3, <3>2 DEF HostReadsImage, Decodes
      <3>3. CASE ~(reply.delta /\ ~HasBase(reply)) /\ Decodes(reply)
        <4>1. shot' = Composed(reply)
          BY <1>3, <3>3 DEF HostReadsImage
        <4>2. IsFull(reply.pic) => Composed(reply) = Meant
          BY <2>1, FrameKept
        <4>3. ~IsFull(reply.pic) => Composed(reply) = Meant
          BY <2>1, <3>3 DEF HasBase, Composed, Meant
        <4> QED
          BY <4>1, <4>2, <4>3
      <3> QED
        BY <3>1, <3>2, <3>3
    <2> QED
      BY <2>1, <2>2, <2>3, <2>4, <2>5 DEF FB!Next, FB!Answer
  <1>4. CASE HostReadsFailure
    <2>1. /\ host' = Dropped /\ reply' = NoMsg /\ screen' = screen /\ shot' = NoPicture
          /\ reply # NoMsg
      BY <1>4, NullMessage DEF HostReadsFailure
    <2>2. host.asked # NoRegion
      BY <2>1 DEF DeltaInv, TurnsAgree
    <2> QED
      BY <2>1, <2>2, GivesUp
  <1>5. CASE LinkLost
    BY <1>5, GivesUp DEF LinkLost
  <1>6. CASE GuestCaptures
    <2>1. /\ pending # NoMsg /\ OnScreen(screen.mode, pending.region)
          /\ screen' = screen /\ host' = host /\ shot' = shot
      BY <1>6 DEF GuestCaptures
    <2>2. reply = NoMsg /\ Meant = NoPicture
      BY <2>1, Serving, NullMessage DEF Meant
    <2>3. CASE ~host.up
      <3>1. reply' = NoMsg
        BY <1>6, <2>3 DEF GuestCaptures, Sends
      <3> QED
        BY <2>1, <2>2, <3>1, NullMessage DEF Meant, FB!vars
    <2>4. CASE host.up
      <3>1. host.asked # NoRegion /\ host.asked = pending.region
        BY <2>1, <2>4, Serving
      <3>2. Meant' = Crop(screen, host.asked)
        <4>1. Captured = Crop(screen, host.asked)
          BY <3>1 DEF Captured
        <4>2. CASE ~WantDelta
          BY <1>6, <2>4, <4>1, <4>2, Captures DEF Meant
        <4>3. CASE WantDelta
          <5>1. IsFull(Captured)
            BY <4>3 DEF WantDelta
          <5>2. guest'.prev = screen
            BY <1>6, <5>1 DEF GuestCaptures
          <5>3. reply' \in Image /\ reply'.delta /\ reply'.pic = Difference
            BY <1>6, <2>4, <4>3, Captures
          <5>4. Meant' = [Difference EXCEPT !.pix = screen.pix]
            BY <5>2, <5>3 DEF Meant
          <5>5. Difference = [Captured EXCEPT !.pix = Difference.pix]
            BY DEF Difference, Captured, Crop
          <5>6. Captured.pix = screen.pix
            BY <2>1, <5>1, CaptureTyped DEF DeltaInv
          <5>7. [[Captured EXCEPT !.pix = Difference.pix] EXCEPT !.pix = screen.pix] = Captured
            BY <5>6 DEF Captured, Crop
          <5> QED
            BY <4>1, <5>4, <5>5, <5>7
        <4> QED
          BY <4>2, <4>3
      <3>3. FB!OnScreen(screen.mode, host.asked) /\ Meant' = FB!Crop(screen, host.asked)
        <4>1. screen \in Screen /\ screen.mode \in Mode /\ host.asked \in Region
          BY <3>1, ScreenParts DEF DeltaInv, TypeOK, HostState
        <4> QED
          BY <2>1, <3>1, <3>2, <4>1, SameDisplay
      <3> QED
        BY <2>1, <2>2, <3>1, <3>3 DEF FB!Next, FB!Look
    <2> QED
      BY <2>3, <2>4
  <1>7. CASE GuestFails
    <2>1. /\ pending # NoMsg
          /\ reply' = IF host.up THEN Failed ELSE NoMsg
          /\ screen' = screen /\ host' = host /\ shot' = shot
      BY <1>7 DEF GuestFails, Sends
    <2>2. Meant = NoPicture /\ Meant' = NoPicture
      BY <2>1, Serving, NullMessage DEF Meant
    <2> QED
      BY <2>1, <2>2 DEF FB!vars
  <1>8. CASE Reconnect
    <2>1. /\ host' = [host EXCEPT !.up = TRUE, !.newLink = TRUE]
          /\ screen' = screen /\ guest' = guest /\ reply' = reply /\ shot' = shot
      BY <1>8 DEF Reconnect
    <2>2. host'.asked = host.asked
      BY <2>1 DEF DeltaInv, TypeOK, HostState
    <2>3. Meant' = Meant
      BY <2>1 DEF Meant
    <2> QED
      BY <2>1, <2>2, <2>3 DEF FB!vars
  <1>9. CASE GuestRestarts
    BY <1>9, GivesUp DEF GuestRestarts
  <1>10. CASE UNCHANGED vars
    <2>1. guest' = guest /\ reply' = reply /\ screen' = screen /\ host' = host /\ shot' = shot
      BY <1>10 DEF vars
    <2> QED
      BY <2>1 DEF FB!vars, Meant
  <1> QED
    BY <1>1, <1>2, <1>3, <1>4, <1>5, <1>6, <1>7, <1>8, <1>9, <1>10 DEF Next

\* What request_screenshot returns is what the screen showed at one moment of the
\* request, over lost links, restarted daemons and changes of the screen's mode.
THEOREM ShowsScreen == Spec => ShowsTheScreen
  BY InitRefines, NextRefines, DeltaInvariant, PTL DEF Spec, FB!Spec, ShowsTheScreen

=============================================================================
