---------------------------- MODULE CacheContract ---------------------------
(***************************************************************************)
(* What those who share the output cache may rely on, whatever it is made  *)
(* of and whoever is killed: a lookup gives what is stored under its key,  *)
(* or nothing; what is stored under a key was made by a client that asked  *)
(* for this key and was given nothing; and whoever is told that the cache  *)
(* is cleared does not meet again what was in it when he began.  There is  *)
(* no promise that an entry stays, nor that only one client makes it.      *)
(***************************************************************************)
CONSTANTS Client, Key,
          Earlier,   \* whoever has stored what is there from earlier
          Nothing

VARIABLES
    entries,  \* entries[k]: who made what is stored under k
    state,
    asked,    \* the key a client has looked up
    answer,   \* what it was given
    due       \* the entries that were there when a client began to clear

NoEntries == [k \in Key |-> Nothing]

Init ==
    /\ entries \in [Key -> {Earlier, Nothing}]
    /\ state = [c \in Client |-> "new"]
    /\ asked = [c \in Client |-> Nothing]
    /\ answer = [c \in Client |-> Nothing]
    /\ due = [c \in Client |-> NoEntries]

Becomes(c, r, s) == state[c] = r /\ state' = [state EXCEPT ![c] = s]

LookUp(c, k) ==
    /\ Becomes(c, "new", "answered")
    /\ asked' = [asked EXCEPT ![c] = k]
    /\ answer' = [answer EXCEPT ![c] = entries[k]]
    /\ UNCHANGED <<entries, due>>

Serve(c) ==
    /\ answer[c] # Nothing
    /\ Becomes(c, "answered", "served")
    /\ UNCHANGED <<entries, asked, answer, due>>

\* What a client makes is stored, or it is not.
Make(c) ==
    /\ answer[c] = Nothing
    /\ Becomes(c, "answered", "made")
    /\ entries' \in {entries, [entries EXCEPT ![asked[c]] = c]}
    /\ UNCHANGED <<asked, answer, due>>

Drop(k) ==
    /\ entries' = [entries EXCEPT ![k] = Nothing]
    /\ UNCHANGED <<state, asked, answer, due>>

StartClear(c) ==
    /\ Becomes(c, "new", "clearing")
    /\ due' = [due EXCEPT ![c] = entries]
    /\ UNCHANGED <<entries, asked, answer>>

Cleared(c) ==
    /\ \A k \in Key : due[c][k] # Nothing => entries[k] # due[c][k]
    /\ Becomes(c, "clearing", "cleared")
    /\ UNCHANGED <<entries, asked, answer, due>>

\* Not every cache may be cleared, nor with success.
Refuse(c) ==
    /\ Becomes(c, "new", "refused") \/ Becomes(c, "clearing", "refused")
    /\ UNCHANGED <<entries, asked, answer, due>>

Killed(c) ==
    /\ Becomes(c, "answered", "killed") \/ Becomes(c, "clearing", "killed")
    /\ UNCHANGED <<entries, asked, answer, due>>

Next ==
    \/ \E c \in Client :
          \/ \E k \in Key : LookUp(c, k)
          \/ Serve(c) \/ Make(c) \/ StartClear(c) \/ Cleared(c) \/ Refuse(c) \/ Killed(c)
    \/ \E k \in Key : Drop(k)

Spec == Init /\ [][Next]_<<entries, state, asked, answer, due>>
=============================================================================
