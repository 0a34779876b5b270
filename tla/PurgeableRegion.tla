--------------------------- MODULE PurgeableRegion ---------------------------
(***************************************************************************)
(* What a purgeable region promises its clients (spec sections 4.C and 8), *)
(* with the UXPT, the pins and the rwlock abstracted away.                 *)
(*                                                                         *)
(* A region holds a builder chain and a buffer; valid means the buffer     *)
(* holds the chain applied to zeroes.  Sessions are read (shared) or write *)
(* (exclusive) and open only on valid data; a write session may rebuild    *)
(* on opening and may append to the chain.  The data may be lost, and      *)
(* rebuilt, only while no session is open.  A begin that fails is not a    *)
(* step of this specification: nothing visible changes.                    *)
(***************************************************************************)
EXTENDS Sequences

CONSTANTS Threads, Funcs

VARIABLES
  region,    \* "none" or "live"
  chain,     \* the builder chain
  valid,     \* the buffer holds the chain applied to zeroes
  session    \* session[t]: "none", "read" or "write"

vars == <<region, chain, valid, session>>

NoSession == \A u \in Threads : session[u] = "none"

Init ==
  /\ region = "none"
  /\ chain = << >>
  /\ valid = FALSE
  /\ session = [t \in Threads |-> "none"]

\* create(size, fn, param): the buffer holds fn applied to zeroes.
Create(f) ==
  /\ region = "none"
  /\ region' = "live"
  /\ chain' = <<f>>
  /\ valid' = TRUE
  /\ UNCHANGED session

\* destroy(region) with no session active (the caller's quiescence).
Destroy ==
  /\ region = "live"
  /\ NoSession
  /\ region' = "none"
  /\ chain' = << >>
  /\ valid' = FALSE
  /\ UNCHANGED session

\* beginRead returning true: shared with other readers, never with a writer.
OpenRead(t) ==
  /\ region = "live"
  /\ session[t] = "none"
  /\ valid
  /\ \A u \in Threads : session[u] # "write"
  /\ session' = [session EXCEPT ![t] = "read"]
  /\ UNCHANGED <<region, chain, valid>>

\* beginWrite returning true: exclusive, rebuilding the data if it was lost.
OpenWrite(t) ==
  /\ region = "live"
  /\ NoSession
  /\ valid' = TRUE
  /\ session' = [session EXCEPT ![t] = "write"]
  /\ UNCHANGED <<region, chain>>

\* The rebuild of the read path, with no session open.
Rebuild ==
  /\ region = "live"
  /\ NoSession
  /\ valid' = TRUE
  /\ UNCHANGED <<region, chain, session>>

\* endRead / endWrite.
Close(t) ==
  /\ session[t] # "none"
  /\ session' = [session EXCEPT ![t] = "none"]
  /\ UNCHANGED <<region, chain, valid>>

\* appendModify in a write session: the chain grows, the data stays valid.
AppendModify(t, f) ==
  /\ session[t] = "write"
  /\ chain' = Append(chain, f)
  /\ UNCHANGED <<region, valid, session>>

\* The data is lost (reclaimed, or a rebuild failed) while no session is open.
Purge ==
  /\ region = "live"
  /\ NoSession
  /\ valid' = FALSE
  /\ UNCHANGED <<region, chain, session>>

Next ==
  \/ \E f \in Funcs : Create(f)
  \/ Destroy
  \/ \E t \in Threads :
        \/ OpenRead(t)
        \/ OpenWrite(t)
        \/ Close(t)
        \/ \E f \in Funcs : AppendModify(t, f)
  \/ Rebuild
  \/ Purge

Spec == Init /\ [][Next]_vars

=============================================================================
