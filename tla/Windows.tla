------------------------------ MODULE Windows ------------------------------
(***************************************************************************)
(* One read-ahead buffer (ReadAhead of musefs-core/src/readahead.rs) and   *)
(* the prefetch plan, as pure operators.  windows is start -> [len, ver]:  *)
(* ver is the version of the file the bytes were read from.  Offsets and   *)
(* lengths are in units of a kernel read.                                  *)
(***************************************************************************)
EXTENDS Integers, Sequences, FiniteSets, SequencesExt, FiniteSetsExt

CONSTANTS
    BackingLen,      \* length of the backing file
    Budget,          \* --read-ahead-budget-mib, not zero
    WINDOW_FLOOR, WINDOW_ABS_CAP, PER_STREAM_DIVISOR

ASSUME WindowsAssumption ==
    /\ {BackingLen, Budget, WINDOW_FLOOR, WINDOW_ABS_CAP, PER_STREAM_DIVISOR} \subseteq Nat \ {0}
    /\ WINDOW_FLOOR <= WINDOW_ABS_CAP

Clamp(x, lo, hi) == Max({lo, Min({x, hi})})

Never == BackingLen + 1      \* u64::MAX as next_expected

per_stream_cap == Clamp(Budget \div PER_STREAM_DIVISOR, WINDOW_FLOOR, WINDOW_ABS_CAP)

NewBuffer == [windows |-> <<>>, next |-> Never, window |-> WINDOW_FLOOR,
              cap |-> per_stream_cap, max |-> 1]

Size(b) == SumFunction([s \in DOMAIN b.windows |-> b.windows[s].len])

End(ws, s) == s + ws[s].len

Containing(b, off) == {s \in DOMAIN b.windows : s <= off /\ off < End(b.windows, s)}

clear(b) == [b EXCEPT !.windows = <<>>, !.next = Never,
                      !.window = Min({WINDOW_FLOOR, b.cap})]

set_cap(b, cap) == [b EXCEPT !.cap = cap, !.window = Min({@, cap})]

\* evict_victim: a consumed window, else the furthest ahead, else the one
\* that reaches least far.
evict_victim(ws, frontier) ==
    LET consumed == {s \in DOMAIN ws : End(ws, s) <= frontier}
        ahead == {s \in DOMAIN ws : s > frontier}
        shortest == {s \in DOMAIN ws : \A t \in DOMAIN ws : End(ws, s) <= End(ws, t)}
    IN  IF consumed # {} THEN Min(consumed)
        ELSE IF ahead # {} THEN Max(ahead) ELSE Min(shortest)

\* Insert, then evict until at most max windows are left.
insert_window(b, start, w) ==
    LET all == [s \in DOMAIN b.windows \cup {start} |->
                  IF s = start THEN w ELSE b.windows[s]]
        surplus == Max({0, Cardinality(DOMAIN all) - b.max})
        left[n \in 0..surplus] ==
            IF n = 0 THEN all
            ELSE Restrict(left[n - 1],
                          DOMAIN left[n - 1] \ {evict_victim(left[n - 1], b.next)})
    IN  [b EXCEPT !.windows = left[surplus]]

\* read_into on a miss, for one unit at off: grow on a sequential read, fall
\* back to the floor on a seek, move the frontier, then insert.
Refill(b, off, ver) ==
    LET window == IF off = b.next THEN Min({2 * b.window, b.cap})
                  ELSE Min({WINDOW_FLOOR, b.cap})
        want == Min({Max({window, 1}), BackingLen - off})
    IN  insert_window([b EXCEPT !.window = window, !.next = off + 1],
                      off, [len |-> want, ver |-> ver])

prefetch_depth(window) == Clamp(per_stream_cap \div Max({window, 1}), 1, 4)

\* plan_prefetch: window-sized blocks from the watermark up to the horizon.
plan_prefetch(upto, start, window, depth, len) ==
    IF window = 0 \/ start >= len THEN [starts |-> <<>>, upto |-> upto]
    ELSE LET horizon == Min({start + depth * window, len})
             from == IF start <= upto /\ upto < horizon + window THEN upto ELSE start
             n == IF from >= horizon THEN 0 ELSE (horizon - from + window - 1) \div window
         IN  [starts |-> [k \in 1..n |-> from + (k - 1) * window],
              upto |-> Min({from + n * window, len})]

=============================================================================
