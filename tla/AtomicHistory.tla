--------------------------- MODULE AtomicHistory ---------------------------
(***************************************************************************)
(* What a Fram server promises its writers, as one sees it from outside    *)
(* (docs/guarantees.md D1, A1, I1 and I3): one history of transactions     *)
(* that only grows while the server runs; a positive answer means the      *)
(* transaction is in the history and stays at its place through every      *)
(* restart; a definite refusal means it is not there and never will be;    *)
(* an answer that is neither, or none at all, promises nothing.            *)
(***************************************************************************)
EXTENDS Integers, Sequences

CONSTANT Request        \* mutations clients may ask for, each at most once

VARIABLES hist,         \* the visible transactions, oldest first
          verdict,      \* what the client of each request has been told
          up            \* a server is running

avars == <<hist, verdict, up>>

Verdict == {"open", "acked", "rejected", "unknown"}

InHist(r, h) == \E i \in 1..Len(h) : h[i] = r

ATypeOK ==
    /\ hist \in Seq(Request)
    /\ verdict \in [Request -> Verdict]
    /\ up \in BOOLEAN

AInit ==
    /\ hist = <<>>
    /\ verdict = [r \in Request |-> "open"]
    /\ up = FALSE

\* A cohort becomes visible as a whole.
Publish ==
    /\ up
    /\ hist' \in Seq(Request)
    /\ Len(hist') > Len(hist)
    /\ SubSeq(hist', 1, Len(hist)) = hist
    /\ \A i \in (Len(hist) + 1)..Len(hist') :
         /\ verdict[hist'[i]] # "rejected"
         /\ \A j \in 1..(i - 1) : hist'[j] # hist'[i]
    /\ UNCHANGED <<verdict, up>>

\* One client gets its answer.
Answer(r) ==
    /\ up
    /\ verdict[r] = "open"
    /\ \/ InHist(r, hist) /\ verdict' = [verdict EXCEPT ![r] = "acked"]
       \/ ~InHist(r, hist) /\ verdict' = [verdict EXCEPT ![r] = "rejected"]
       \/ verdict' = [verdict EXCEPT ![r] = "unknown"]
    /\ UNCHANGED <<hist, up>>

\* The server stops or crashes, or a stopped one loses power: what was
\* acknowledged keeps its place, what was refused stays out, everything else
\* may come or go.
Stop ==
    /\ up' = FALSE
    /\ hist' \in Seq(Request)
    /\ \A i \in 1..Len(hist) :
         verdict[hist[i]] = "acked" => i <= Len(hist') /\ hist'[i] = hist[i]
    /\ \A i \in 1..Len(hist') : verdict[hist'[i]] # "rejected"
    /\ \A i, j \in 1..Len(hist') : hist'[i] = hist'[j] => i = j
    /\ verdict' \in [Request -> Verdict]
    /\ \A r \in Request :
         verdict'[r] = verdict[r] \/ (verdict[r] = "open" /\ verdict'[r] = "unknown")

\* A server starts and shows the history as it is.
Start ==
    /\ ~up
    /\ up' = TRUE
    /\ UNCHANGED <<hist, verdict>>

ANext == Publish \/ (\E r \in Request : Answer(r)) \/ Stop \/ Start

ASpec == AInit /\ [][ANext]_avars
=============================================================================
