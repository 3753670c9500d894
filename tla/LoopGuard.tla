------------------------------ MODULE LoopGuard ------------------------------
(***************************************************************************)
(* The guards of host/loop_guard.py that watch an agent use the tools:     *)
(* which call repeats, what has been tried, whether a change was compiled. *)
(* Each is a record, and one operator per method.  A call is its key: the  *)
(* tool and its arguments.                                                 *)
(***************************************************************************)
EXTENDS Naturals, FiniteSetsExt, SequencesExt

CONSTANTS
    Key,        \* the calls that can be told apart
    Window,     \* RepeatWatch: how long an earlier call counts
    History,    \* RepeatWatch: how many calls are looked at for a cycle
    Outcome,    \* AttemptLog: what can become of a call
    MaxCalls,   \* bound on the histories the guards are compared over
    MaxGap      \* bound on the time between two calls

ASSUME GuardAssumption ==
    /\ Window \in Nat /\ History \in Nat \ {0}
    /\ MaxCalls \in Nat /\ MaxGap \in Nat
    /\ Key # {} /\ Outcome # {}

None == 0
Nothing == [identical |-> 0, consecutive |-> 0, cycle |-> None]

-----------------------------------------------------------------------------
(* RepeatWatch: is the agent repeating itself? *)

NewWatch == [count |-> [k \in Key |-> 0], at |-> [k \in Key |-> 0],
             run |-> 0, recent |-> <<>>]

\* Mutant: the whole ring is searched, however old its calls are.
CycleLength_Ageless(recent, now) ==
    LET keys == [i \in 1..Len(recent) |-> recent[i].key]
        n    == Len(keys)
        Again(p) == \A i \in 0..(p - 1) : keys[n - i] = keys[n - p - i]
    IN  Min({p \in 1..(n \div 2) : Again(p)} \union {n + 1}) % (n + 1)

\* The shortest period the calls in the window end with twice, None for no such.
CycleLength(recent, now) ==
    LET fresh == SelectSeq(recent, LAMBDA e : now - e.at <= Window)
        keys  == [i \in 1..Len(fresh) |-> fresh[i].key]
        n     == Len(keys)
        Again(p) == \A i \in 0..(p - 1) : keys[n - i] = keys[n - p - i]
    IN  Min({p \in 1..(n \div 2) : Again(p)} \union {n + 1}) % (n + 1)

\* note(): the watch after a call, and what is reported of it.
Noted(w, k, now) ==
    LET seenBefore == w.count[k] > 0 /\ now - w.at[k] <= Window
        count  == (IF seenBefore THEN w.count[k] ELSE 0) + 1
        run    == IF seenBefore /\ w.recent # <<>> /\ Last(w.recent).key = k THEN w.run + 1 ELSE 0
        ring   == Append(w.recent, [key |-> k, at |-> now])
        recent == IF Len(ring) > History THEN Tail(ring) ELSE ring
        cycle  == CycleLength(recent, now)
    IN  [watch  |-> [count |-> [w.count EXCEPT ![k] = count], at |-> [w.at EXCEPT ![k] = now],
                     run |-> run, recent |-> recent],
         report |-> IF count = 1 /\ cycle = None THEN Nothing
                    ELSE [identical |-> count, consecutive |-> run + 1, cycle |-> cycle]]

-----------------------------------------------------------------------------
(* AttemptLog: what has been tried, with what outcome *)

\* Mutant: only the first outcome of a call is kept.
Tried_First(rows, k, outcome) ==
    IF \E i \in 1..Len(rows) : rows[i].key = k
    THEN [i \in 1..Len(rows) |-> IF rows[i].key = k THEN [rows[i] EXCEPT !.tries = @ + 1] ELSE rows[i]]
    ELSE Append(rows, [key |-> k, tries |-> 1, outcomes |-> <<outcome>>])

\* record(): one row per call, in the order of the first try.
Tried(rows, k, outcome) ==
    IF \E i \in 1..Len(rows) : rows[i].key = k
    THEN [i \in 1..Len(rows) |->
            IF rows[i].key # k THEN rows[i]
            ELSE [rows[i] EXCEPT !.tries = @ + 1,
                                 !.outcomes = IF Last(@) = outcome THEN @ ELSE Append(@, outcome)]]
    ELSE Append(rows, [key |-> k, tries |-> 1, outcomes |-> <<outcome>>])

\* lines(limit): the newest rows first.
Lines(rows, limit) == SubSeq(Reverse(rows), 1, Min({limit, Len(rows)}))

-----------------------------------------------------------------------------
(* TerminationWatch: did the loop close?  And the hint of UncompiledWrite. *)

Verdict == {"success", "failure", "unknown"}

NewTermination == [written |-> FALSE, pending |-> FALSE, verdict |-> "unknown"]

TerminationState == [written : BOOLEAN, pending : BOOLEAN, verdict : Verdict]

\* note() of a write, whatever became of it, and of a compile with its verdict.
WriteNoted(t) == [written |-> TRUE, pending |-> TRUE, verdict |-> "unknown"]

CompileNoted(t, verdict) == [t EXCEPT !.pending = FALSE, !.verdict = verdict]

Ending(t) ==
    IF ~t.written THEN "nothing_written"
    ELSE IF t.pending THEN "not_recompiled"
    ELSE CASE t.verdict = "unknown" -> "compiled_unverified"
           [] t.verdict = "success" -> "recompiled_ok"
           [] t.verdict = "failure" -> "recompiled_failed"

-----------------------------------------------------------------------------
(* What the guards report, compared with what they are to report *)

Calls == [key : Key, gap : 0..MaxGap]

\* The time of the n-th call of a history.
At(h, n) == FoldLeft(LAMBDA sum, c : sum + c.gap, 0, SubSeq(h, 1, n))

\* The watch after h and what it last reported.
Watched(h) ==
    FoldLeft(LAMBDA s, n : Noted(s.watch, h[n].key, At(h, n)),
             [watch |-> NewWatch, report |-> Nothing], [n \in 1..Len(h) |-> n])

Within(h, i) == At(h, Len(h)) - At(h, i) <= Window

\* The last 2p calls lie in the window and are p calls made twice.
Repeats(h, p) ==
    /\ 2 * p <= Len(h) /\ Within(h, Len(h) - 2 * p + 1)
    /\ \A i \in (Len(h) - p + 1)..Len(h) : h[i].key = h[i - p].key

\* An agent that goes round in p calls is noticed at the end of the second round
\* if p is at most half the ring and both rounds fit the window, and one that has
\* not made the call before in the window is reported for nothing else.
LoopsAreNoticed ==
    \A len \in 1..MaxCalls : \A h \in [1..len -> Calls] :
        LET report == Watched(h).report
            loops  == {p \in 1..(History \div 2) : Repeats(h, p)}
            again  == \E i \in 1..(len - 1) : h[i].key = h[len].key /\ Within(h, i)
        IN  IF report = Nothing THEN loops = {} /\ ~again
            ELSE /\ report.cycle = Min(loops \union {History}) % History
                 /\ loops # {} \/ again

Tries == [key : Key, outcome : Outcome]

Log(h) == FoldLeft(LAMBDA rows, t : Tried(rows, t.key, t.outcome), <<>>, h)

\* The log forgets no attempt and no change of outcome: the tries add up, and a
\* row ends with what became of the last try.
NothingForgotten ==
    \A len \in 1..MaxCalls : \A h \in [1..len -> Tries] :
        LET rows == Log(h) IN
        /\ \A i, j \in 1..Len(rows) : rows[i].key = rows[j].key => i = j
        /\ \A i \in 1..Len(rows) :
            LET mine == SelectSeq(h, LAMBDA t : t.key = rows[i].key) IN
            /\ rows[i].tries = Len(mine)
            /\ Last(rows[i].outcomes) = Last(mine).outcome
            /\ ToSet(rows[i].outcomes) = {t.outcome : t \in ToSet(mine)}
        /\ {t.key : t \in ToSet(h)} = {r.key : r \in ToSet(Lines(rows, len))}

=============================================================================
