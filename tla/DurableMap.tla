---------------------------- MODULE DurableMap ----------------------------
(* What a store that survives crashes promises.  Its keys are registers.  A  *)
(* value that was written and acknowledged stays until the next write of the *)
(* key.  A write that was begun and not acknowledged may or may not have     *)
(* happened, but the next time the store opens the question is settled: it   *)
(* opens with one of the possible values of each key, and from then on that  *)
(* one alone is possible.                                                    *)
EXTENDS Naturals

CONSTANTS Keys, Values, Missing

VARIABLES
  open,   \* somebody can read
  value,  \* key -> what a reader finds, or found last
  may     \* key -> the values the key may have after a crash

storeVars == <<open, value, may>>

StoreInit ==
  /\ open = FALSE
  /\ value = [k \in Keys |-> Missing]
  /\ may = [k \in Keys |-> {Missing}]

\* A write takes effect, but may still be undone by a crash.
Write(k, v) ==
  /\ open
  /\ value' = [value EXCEPT ![k] = v]
  /\ may' = [may EXCEPT ![k] = @ \cup {v}]
  /\ UNCHANGED open

\* A write fails, but may still happen by a crash.
Attempt(k, v) ==
  /\ open
  /\ may' = [may EXCEPT ![k] = @ \cup {v}]
  /\ UNCHANGED <<open, value>>

\* The value of a key is safe.
Acknowledge(k) ==
  /\ open
  /\ may' = [may EXCEPT ![k] = {value[k]}]
  /\ UNCHANGED <<open, value>>

Stop == open' = FALSE /\ UNCHANGED <<value, may>>

Open ==
  /\ ~ open
  /\ open' = TRUE
  /\ value' \in [Keys -> Values \cup {Missing}]
  /\ \A k \in Keys : value'[k] \in may[k]
  /\ may' = [k \in Keys |-> {value'[k]}]

StoreNext ==
  \/ \E k \in Keys, v \in Values : Write(k, v) \/ Attempt(k, v)
  \/ \E k \in Keys : Acknowledge(k)
  \/ Stop
  \/ Open

StoreSpec == StoreInit /\ [][StoreNext]_storeVars
=============================================================================
