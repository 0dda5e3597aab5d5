------------------------------ MODULE Contacts ------------------------------
(***************************************************************************)
(* contacts.c: the chats that have written to the pager, in RAM and in one *)
(* NVS blob.  A full table forgets the chat that has gone longest without  *)
(* writing; to spare the flash a stamp is only refreshed when it lags by   *)
(* more than Touch.  A write may fail, and then only the log says so.      *)
(***************************************************************************)
EXTENDS Integers, Sequences, FiniteSetsExt

CONSTANTS
  NoChat,       \* chat id 0, of a page sent inline
  MaxContacts,  \* APP_CONTACTS_MAX
  Touch         \* APP_CONTACTS_TOUCH_S

ASSUME ContactsAssumption == MaxContacts \in Nat \ {0} /\ Touch \in Nat

VARIABLES
  contacts,  \* s_blob: a sequence of [chat, seen]
  blob,      \* the list in NVS
  behind,    \* history: the last write of the blob failed
  wrote,     \* history: the latest message noted of each chat, resets or not
  stale      \* history: chats a reset brought back as RAM no longer had them,
             \* not noted since

table == <<contacts, blob, behind, wrote, stale>>

Chats(list) == {list[i].chat : i \in DOMAIN list}
Stamps(list) ==
  [c \in Chats(list) |-> Max({list[i].seen : i \in {j \in DOMAIN list : list[j].chat = c}})]

Save(list) ==
  \/ blob' = list /\ behind' = FALSE
  \/ UNCHANGED blob /\ behind' = TRUE

\* The first of the entries with the smallest stamp.
MostRecent ==
  CHOOSE i \in DOMAIN contacts : \A j \in DOMAIN contacts :
    contacts[i].seen > contacts[j].seen \/ (contacts[i].seen = contacts[j].seen /\ i <= j)
LeastRecent ==
  CHOOSE i \in DOMAIN contacts : \A j \in DOMAIN contacts :
    contacts[i].seen < contacts[j].seen \/ (contacts[i].seen = contacts[j].seen /\ i <= j)

Entry(c, when) == [chat |-> c, seen |-> when]

TouchUnsaved(i, when) ==
  /\ when > contacts[i].seen + Touch
  /\ contacts' = [contacts EXCEPT ![i].seen = when]
  /\ UNCHANGED <<blob, behind>>

Touched(i, when) ==
  /\ when > contacts[i].seen + Touch
  /\ contacts' = [contacts EXCEPT ![i].seen = when]
  /\ Save(contacts')

\* A changed name alone is a reason to write, too.
Untouched(i, when) ==
  /\ when <= contacts[i].seen + Touch
  /\ UNCHANGED contacts
  /\ UNCHANGED <<blob, behind>> \/ Save(contacts)

Added(c, when) ==
  /\ contacts' = IF Len(contacts) < MaxContacts
                 THEN Append(contacts, Entry(c, when))
                 ELSE [contacts EXCEPT ![LeastRecent] = Entry(c, when)]
  /\ Save(contacts')

(* contacts_note *)
Note(c, when) ==
  IF c = NoChat THEN UNCHANGED table
  ELSE /\ \/ c \notin Chats(contacts) /\ Added(c, when)
          \/ \E i \in DOMAIN contacts :
               /\ contacts[i].chat = c
               /\ Touched(i, when) \/ Untouched(i, when)
       /\ wrote' = [d \in DOMAIN wrote \cup {c} |->
                      IF d # c THEN wrote[d]
                      ELSE IF d \in DOMAIN wrote /\ wrote[d] > when THEN wrote[d] ELSE when]
       /\ stale' = stale \ {c}

(* contacts_init: a blob that cannot be read leaves the table empty.        *)
Restore ==
  /\ \/ contacts' = blob /\ behind' = FALSE
     \/ contacts' = << >> /\ behind' = TRUE
  /\ stale' = stale \cup
       {blob[k].chat : k \in {j \in DOMAIN blob : blob[j] \notin Range(contacts)}}
  /\ UNCHANGED <<blob, wrote>>
=============================================================================
