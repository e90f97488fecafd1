--------------------------- MODULE BatchIngestion ---------------------------
(***************************************************************************)
(* What ListingIngestionService promises, without its event loop.  A call  *)
(* either stores one whole batch in one step, and that batch speaks only   *)
(* of the community the call asked about; or it ends without a result, and *)
(* then leaves at most a prefix of one such batch behind.  Several calls   *)
(* may end without a result together, which is what the death of the       *)
(* process does.                                                           *)
(***************************************************************************)
EXTENDS ListingStore

CONSTANTS
    Calls,      \* ingest() calls
    Batches     \* answers a provider may give

VARIABLES
    listing,    \* table listing
    snapshot,   \* table listing_snapshot
    subject,    \* subject[c] : the community call c asked about, or Null
    outcome     \* outcome[c] : pending, stored, or failed

absVars == <<listing, snapshot, subject, outcome>>

Outcomes == {"pending", "stored", "failed"}

Init ==
    /\ listing = EmptyListings
    /\ snapshot = EmptySnapshots
    /\ subject = [c \in Calls |-> Null]
    /\ outcome = [c \in Calls |-> "pending"]

Speaks(b, community) == \A i \in 1 .. Len(b) : b[i].community = community

Ask(c, community) ==
    /\ subject[c] = Null
    /\ subject' = [subject EXCEPT ![c] = community]
    /\ UNCHANGED <<listing, snapshot, outcome>>

\* The whole batch, none of its statements raising.
Store(c, b) ==
    LET after == Persisted(listing, snapshot, b)[StatementCount(b)] IN
    /\ outcome[c] = "pending"
    /\ subject[c] # Null
    /\ Speaks(b, subject[c])
    /\ ~ after.raised
    /\ listing' = after.listing
    /\ snapshot' = after.snapshot
    /\ outcome' = [outcome EXCEPT ![c] = "stored"]
    /\ UNCHANGED subject

\* The calls in C end without a result; one of them may leave a prefix.
Fail(C) ==
    /\ \A c \in C : outcome[c] = "pending" /\ subject[c] # Null
    /\ outcome' = [c \in Calls |-> IF c \in C THEN "failed" ELSE outcome[c]]
    /\ \/ UNCHANGED <<listing, snapshot>>
       \/ \E c \in C, b \in Batches :
             /\ Speaks(b, subject[c])
             /\ \E k \in 0 .. StatementCount(b) :
                    LET after == Persisted(listing, snapshot, b)[k] IN
                    /\ listing' = after.listing
                    /\ snapshot' = after.snapshot
    /\ UNCHANGED subject

Next ==
    \/ \E c \in Calls, community \in Communities : Ask(c, community)
    \/ \E c \in Calls, b \in Batches : Store(c, b)
    \/ \E C \in (SUBSET Calls) \ {{}} : Fail(C)

Spec == Init /\ [][Next]_absVars
=============================================================================
