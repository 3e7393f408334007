------------------------------- MODULE UserTable -------------------------------
(***************************************************************************)
(* The users table, which the auth and identity services share.  A row is  *)
(* inserted when a phone number logs in for the first time and changed     *)
(* once more, when the identity service links it to a verified identity.   *)
(* Each operator is one SQL statement.                                     *)
(***************************************************************************)
EXTENDS Naturals

CONSTANTS Users,         \* bound: the ids the table may hand out
          Phones,        \* phone numbers
          NoValue        \* SQL NULL, or JavaScript's null

ASSUME UserTableAssumption == NoValue \notin Nat \cup Users \cup Phones

VARIABLE users           \* users[u]: the row of id u

UserStatus == {"pending_kyc", "active", "suspended", "banned"}

\* "none" marks an id without a row.
UserRow == [status   : UserStatus \cup {"none"},
            phone    : Phones \cup {NoValue},
            identity : Nat \cup {NoValue}]

NoUser == [status |-> "none", phone |-> NoValue, identity |-> NoValue]

HasRow(u) == users[u].status # "none"

\* SELECT * FROM users WHERE phone = $1
HasPhone(u, phone) == HasRow(u) /\ users[u].phone = phone

\* (faulty variant) a users table whose phone column is not UNIQUE
PhoneFreeUnchecked(phone) == TRUE

\* phone VARCHAR(20) NOT NULL UNIQUE
PhoneFree(phone) == \A u \in Users : ~HasPhone(u, phone)

\* UserRepository.create; the statement fails when the phone is taken.
InsertUser(u, phone) ==
  /\ ~HasRow(u)
  /\ PhoneFree(phone)
  /\ users' = [users EXCEPT ![u] = [status   |-> "pending_kyc",
                                    phone    |-> phone,
                                    identity |-> NoValue]]

\* (faulty variant) the account is activated and linked by two statements,
\* and the second is lost
ActivateUnlinked(u, i) == users' = [users EXCEPT ![u].status = "active"]

\* IdentityRepository.linkUserToIdentity: whatever the row held before.
LinkUserToIdentity(u, i) ==
  users' = [users EXCEPT ![u] = [@ EXCEPT !.identity = i, !.status = "active"]]
================================================================================
