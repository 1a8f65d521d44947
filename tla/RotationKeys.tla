---------------------------- MODULE RotationKeys ----------------------------
(***************************************************************************)
(* What the copies of an HESession promise about rotation keys, without    *)
(* locks, key objects or streams: a set of keys that only grows, by keys   *)
(* some waiting rotation needs, and a rotation that is done once all of    *)
(* its keys are there or refused when the session cannot make them.        *)
(***************************************************************************)
CONSTANTS
  Threads,        \* the threads that use the session
  Keys            \* the steps, and the key of the conjugation

VARIABLES
  maker,          \* the session can make keys
  keys,           \* the keys that are ready to use
  call,           \* what each thread waits for: "idle", "rotate" or "save"
  need,           \* the keys of the rotation of each thread
  result,         \* how the last call of each thread ended
  saved           \* the keys last saved

kvars == <<maker, keys, call, need, result, saved>>

KInit ==
  /\ maker \in BOOLEAN
  /\ keys \in SUBSET Keys
  /\ call = [t \in Threads |-> "idle"]
  /\ need = [t \in Threads |-> {}]
  /\ result = [t \in Threads |-> "none"]
  /\ saved = {}

Request(t, kind) ==
  /\ call[t] = "idle"
  /\ call' = [call EXCEPT ![t] = kind]
  /\ result' = [result EXCEPT ![t] = "none"]
  /\ UNCHANGED <<keys, saved>>

Answer(t, value) ==
  /\ call' = [call EXCEPT ![t] = "idle"]
  /\ need' = [need EXCEPT ![t] = {}]
  /\ result' = [result EXCEPT ![t] = value]
  /\ UNCHANGED keys

AskRotate(t) ==
  /\ Request(t, "rotate")
  /\ \E S \in SUBSET Keys : need' = [need EXCEPT ![t] = S]

AskSave(t) ==
  /\ Request(t, "save")
  /\ UNCHANGED need

(* A key is made because a waiting rotation needs it.                      *)
MakeKey(t) ==
  /\ maker
  /\ call[t] = "rotate"
  /\ \E k \in need[t] : /\ k \notin keys
                        /\ keys' = keys \cup {k}
  /\ UNCHANGED <<call, need, result, saved>>

Rotate(t) ==
  /\ call[t] = "rotate"
  /\ need[t] \subseteq keys
  /\ Answer(t, "ok")
  /\ UNCHANGED saved

Refuse(t) ==
  /\ call[t] = "rotate"
  /\ ~maker
  /\ ~(need[t] \subseteq keys)
  /\ Answer(t, "KeyNotFound")
  /\ UNCHANGED saved

SaveKeys(t) ==
  /\ call[t] = "save"
  /\ saved' = keys
  /\ Answer(t, "saved")

KNext ==
  /\ \E t \in Threads :
       \/ AskRotate(t) \/ AskSave(t) \/ MakeKey(t)
       \/ Rotate(t) \/ Refuse(t) \/ SaveKeys(t)
  /\ UNCHANGED maker

KSpec == KInit /\ [][KNext]_kvars

=============================================================================
