---------------------------- MODULE PhoneAccounts ----------------------------
(***************************************************************************)
(* The accounts of one phone number in the identity service: logins with   *)
(* an OTP or a PIN, sign-ups, new PINs and deletions, and the unified      *)
(* identity that UnifiedIdentityService finds or creates for the number    *)
(* under an advisory lock.  Its look-ups and its link of the users run on  *)
(* other connections than its transaction.  changePhone is not here: it    *)
(* compares the code it is given with the hash that sendOtp stores, and    *)
(* always refuses.                                                         *)
(***************************************************************************)
EXTENDS Naturals, FiniteSets, EntitySave

CONSTANTS
    Visits,         \* requests in flight at a time
    MaxAccounts,    \* bound: rows ever inserted into users
    MaxIdentities   \* bound: rows ever inserted into unified_identities

ASSUME PhoneAssumption == MaxAccounts \in Nat \ {0} /\ MaxIdentities \in Nat \ {0}

VARIABLES
    account,    \* rows of users with account_type CONSUMER
    persons,    \* rows of unified_identities
    phoneRow,   \* the identity of the number in identity_phone_numbers; 0 without a row
    visit,      \* per request: its position and local variables
    tokens      \* the pairs <<account, identity>> of the access tokens issued

phoneVars == <<account, persons, phoneRow, visit, tokens>>

Accounts == 1..MaxAccounts
Identities == 1..MaxIdentities

\* phone: the number, the text that anonymizedPhone puts there, or no row (any more).
AccountRow == [phone : {"unused", "phone", "deleted", "gone"}, identity : {0} \cup Identities]
NoAccount == [phone |-> "unused", identity |-> 0]
NewAccount == [phone |-> "phone", identity |-> 0]

VisitPc == {"idle", "find", "users", "create", "link", "attach", "accounts", "check", "insert",
            "select", "token", "saving", "writing", "reinsert"}

\* next: where findOrCreateByPhone returns to; found, users: the identity it has looked up and
\* whether there are users; identity: the result of the request's first call of it;
\* image, cols: of repository.save.
VisitRecord ==
    [pc : VisitPc, next : VisitPc, account : {0} \cup Accounts, identity : {0} \cup Identities,
     found : {0} \cup Identities, users : BOOLEAN,
     image : AccountRow, cols : SUBSET {"phone", "identity"}]

Idle == [pc |-> "idle", next |-> "idle", account |-> 0, identity |-> 0, found |-> 0,
         users |-> FALSE, image |-> NoAccount, cols |-> {}]

\* findConsumerByPhone, findForKyc, findAccountsByPhone.
WithPhone == {a \in Accounts : account[a].phone = "phone"}
WithoutIdentity == {a \in WithPhone : account[a].identity = 0}

Stored(a) == account[a].phone \in {"phone", "deleted"}

\* The unique indexes on users: one consumer per phone and one per identity.
Clash(a, row) ==
    \E b \in Accounts \ {a} :
        Stored(b) /\ (\/ row.phone = "phone" /\ account[b].phone = "phone"
                      \/ row.identity # 0 /\ account[b].identity = row.identity)

Goto(v, pc) == visit' = [visit EXCEPT ![v].pc = pc]
End(v) == visit' = [visit EXCEPT ![v] = Idle]

----------------------------------------------------------------------------
(* UnifiedIdentityService.findOrCreateByPhone *)

\* pg_advisory_xact_lock is held until the transaction ends.
LockFree == \A w \in Visits : visit[w].pc \notin {"users", "create", "link", "attach"}

\* Mutant: findOrCreateByPhone takes no advisory lock.
FindUnlocked(v) ==
    /\ visit[v].pc = "find"
    /\ IF persons = {} THEN Goto(v, "users")
       ELSE \E i \in (IF phoneRow # 0 THEN {phoneRow} ELSE persons) :
                visit' = [visit EXCEPT ![v].pc = "link", ![v].found = i]
    /\ UNCHANGED <<account, persons, phoneRow, tokens>>

\* The lock, and findIdentityByPhoneOrLegacy.
FindIdentity(v) ==
    /\ visit[v].pc = "find"
    /\ LockFree
    /\ IF persons = {} THEN Goto(v, "users")
       ELSE \E i \in (IF phoneRow # 0 THEN {phoneRow} ELSE persons) :
                visit' = [visit EXCEPT ![v].pc = "link", ![v].found = i]
    /\ UNCHANGED <<account, persons, phoneRow, tokens>>

ReadUsers(v) ==
    /\ visit[v].pc = "users"
    /\ visit' = [visit EXCEPT ![v].pc = "create", ![v].users = WithPhone # {}]
    /\ UNCHANGED <<account, persons, phoneRow, tokens>>

Return(v, i) ==
    LET x == visit[v]
        y == [x EXCEPT !.pc = x.next, !.found = 0, !.users = FALSE,
                       !.identity = IF x.identity = 0 THEN i ELSE x.identity]
    IN  visit' = [visit EXCEPT ![v] = IF x.next = "idle" THEN Idle ELSE y]

\* ensurePhoneAttached: a number attached to another identity is no error.
Attach(i) == phoneRow' = IF phoneRow = 0 THEN i ELSE phoneRow

\* The identity is inserted, and the users are linked to it through another connection, where
\* the row does not exist yet: the foreign key refuses the update of any user.
CreateIdentity(v) ==
    /\ visit[v].pc = "create"
    /\ IF visit[v].users /\ WithoutIdentity # {}
       THEN End(v) /\ UNCHANGED <<persons, phoneRow>>
       ELSE \E i \in Identities :
                /\ i = Cardinality(persons) + 1
                /\ persons' = persons \cup {i}
                /\ Attach(i) /\ Return(v, i)
    /\ UNCHANGED <<account, tokens>>

\* linkUsersToIdentity.  A duplicate key passes through findOrCreateByPhone; createUser and
\* findOrCreateForKyc then go on with the user of the number.
LinkUsers(v) ==
    LET linked == [a \in Accounts |->
                      [account[a] EXCEPT !.identity = IF a \in WithoutIdentity THEN visit[v].found ELSE @]]
    IN  /\ visit[v].pc = "link"
        /\ IF \E a \in WithoutIdentity : Clash(a, linked[a])
           THEN /\ IF visit[v].next = "select" THEN Goto(v, "select") ELSE End(v)
                /\ UNCHANGED account
           ELSE account' = linked /\ Goto(v, "attach")
        /\ UNCHANGED <<persons, phoneRow, tokens>>

AttachPhone(v) ==
    /\ visit[v].pc = "attach"
    /\ Attach(visit[v].found) /\ Return(v, visit[v].found)
    /\ UNCHANGED <<account, persons, tokens>>

----------------------------------------------------------------------------
(* AuthService and UsersService *)

Issue(a, i) == tokens' = tokens \cup {<<a, i>>}

\* verifyOtp with the right code.
verifyOtp(v) ==
    /\ visit[v].pc = "idle"
    /\ visit' = [visit EXCEPT ![v].pc = "find", ![v].next = "accounts"]
    /\ UNCHANGED <<account, persons, phoneRow, tokens>>

\* An account of the number gets a token; without one findOrCreateForKyc makes it.
ReadAccounts(v) ==
    /\ visit[v].pc = "accounts"
    /\ IF WithPhone # {}
       THEN End(v) /\ \E a \in WithPhone : Issue(a, visit[v].identity)
       ELSE /\ visit' = [visit EXCEPT ![v].pc = "insert", ![v].next = "select"]
            /\ UNCHANGED tokens
    /\ UNCHANGED <<account, persons, phoneRow>>

\* createUser, called for a sign-up or by a setPin that finds no account.
createUser(v) ==
    /\ visit[v].pc = "idle"
    /\ Goto(v, "check")
    /\ UNCHANGED <<account, persons, phoneRow, tokens>>

CheckPhone(v) ==
    /\ visit[v].pc = "check"
    /\ IF WithPhone # {} THEN End(v) ELSE Goto(v, "insert")
    /\ UNCHANGED <<account, persons, phoneRow, tokens>>

\* The insert of createUser and of findOrCreateForKyc: a user of the number who is already
\* there, or whom the unique index finds, is the result.
InsertAccount(v) ==
    /\ visit[v].pc = "insert"
    /\ IF WithPhone # {}
       THEN /\ IF visit[v].next = "select" THEN Goto(v, "select") ELSE End(v)
            /\ UNCHANGED account
       ELSE \E a \in Accounts :
                /\ account[a].phone = "unused" /\ \A b \in 1..(a - 1) : account[b].phone # "unused"
                /\ account' = [account EXCEPT ![a] = NewAccount]
                /\ Goto(v, "find")
    /\ UNCHANGED <<persons, phoneRow, tokens>>

SelectAccount(v) ==
    /\ visit[v].pc = "select"
    /\ IF WithPhone = {} THEN UNCHANGED tokens
       ELSE \E a \in WithPhone : Issue(a, visit[v].identity)
    /\ End(v)
    /\ UNCHANGED <<account, persons, phoneRow>>

\* verifyPin: the identity of the account, or that of its number.
verifyPin(v, a) ==
    /\ visit[v].pc = "idle" /\ a \in WithPhone
    /\ IF account[a].identity # 0
       THEN Issue(a, account[a].identity) /\ UNCHANGED visit
       ELSE /\ visit' = [visit EXCEPT ![v].pc = "find", ![v].next = "token", ![v].account = a]
            /\ UNCHANGED tokens
    /\ UNCHANGED <<account, persons, phoneRow>>

TokenAfterPin(v) ==
    /\ visit[v].pc = "token"
    /\ Issue(visit[v].account, visit[v].identity)
    /\ End(v)
    /\ UNCHANGED <<account, persons, phoneRow>>

\* setPin for an account that exists changes the entity's pin_hash and saves it.
setPin(v, a) ==
    /\ visit[v].pc = "idle" /\ a \in WithPhone
    /\ visit' = [visit EXCEPT ![v].pc = "saving", ![v].account = a, ![v].image = account[a]]
    /\ UNCHANGED <<account, persons, phoneRow, tokens>>

\* The account is anonymised and its number free again.
requestAccountDeletion(v, a) ==
    /\ visit[v].pc = "idle" /\ a \in WithPhone
    /\ visit' = [visit EXCEPT ![v].pc = "saving", ![v].account = a,
                              ![v].image = [account[a] EXCEPT !.phone = "deleted"]]
    /\ UNCHANGED <<account, persons, phoneRow, tokens>>

SaveReads(v) ==
    /\ visit[v].pc = "saving"
    /\ IF Stored(visit[v].account)
       THEN visit' = [visit EXCEPT ![v].pc = "writing",
                                   ![v].cols = Changed(visit[v].image, account[visit[v].account])]
       ELSE Goto(v, "reinsert")
    /\ UNCHANGED <<account, persons, phoneRow, tokens>>

\* A row that save did not find is inserted again; one that went later is not updated.  A
\* duplicate key is an error.
SaveWrites(v) ==
    LET a == visit[v].account
        row == IF visit[v].pc = "reinsert" THEN visit[v].image
               ELSE Updated(visit[v].image, visit[v].cols, account[a])
    IN  /\ visit[v].pc \in {"writing", "reinsert"}
        /\ account' = IF ~Clash(a, row) /\ (Stored(a) <=> visit[v].pc = "writing")
                      THEN [account EXCEPT ![a] = row] ELSE account
        /\ End(v)
        /\ UNCHANGED <<persons, phoneRow, tokens>>

deleteAccount(a) ==
    /\ Stored(a)
    /\ account' = [account EXCEPT ![a] = [phone |-> "gone", identity |-> 0]]
    /\ UNCHANGED <<persons, phoneRow, visit, tokens>>

\* The request dies: its transaction is rolled back and its lock is free.
VisitLost(v) ==
    /\ visit[v].pc # "idle"
    /\ End(v)
    /\ UNCHANGED <<account, persons, phoneRow, tokens>>

----------------------------------------------------------------------------

\* Rows of before the migration: a user without an identity, an identity without a number.
PhoneInit ==
    /\ account \in {[a \in Accounts |-> NoAccount], [a \in Accounts |-> IF a = 1 THEN NewAccount ELSE NoAccount]}
    /\ persons \in {{}, {1}}
    /\ phoneRow = 0
    /\ visit = [v \in Visits |-> Idle]
    /\ tokens = {}

PhoneNext ==
    \/ \E v \in Visits :
        \/ FindIdentity(v) \/ ReadUsers(v) \/ CreateIdentity(v) \/ LinkUsers(v) \/ AttachPhone(v)
        \/ verifyOtp(v) \/ ReadAccounts(v) \/ createUser(v) \/ CheckPhone(v)
        \/ InsertAccount(v) \/ SelectAccount(v) \/ TokenAfterPin(v)
        \/ SaveReads(v) \/ SaveWrites(v) \/ VisitLost(v)
        \/ \E a \in Accounts : verifyPin(v, a) \/ setPin(v, a) \/ requestAccountDeletion(v, a)
    \/ \E a \in Accounts : deleteAccount(a)

PhoneSpec == PhoneInit /\ [][PhoneNext]_phoneVars

----------------------------------------------------------------------------

PhoneTypeOK ==
    /\ account \in [Accounts -> AccountRow]
    /\ persons \subseteq Identities /\ phoneRow \in {0} \cup Identities
    /\ visit \in [Visits -> VisitRecord]
    /\ tokens \subseteq Accounts \X Identities

\* However logins, sign-ups, new PINs and deletions of a phone number interleave, all its
\* accounts, old and new, its row in identity_phone_numbers and every token ever issued
\* for it name one and the same identity (findOrCreateByPhone, "prevent duplicate identities
\* under concurrent requests").
OneIdentityPerPhone ==
    \E i \in Identities :
        /\ persons \subseteq {i} /\ phoneRow \in {0, i}
        /\ \A a \in Accounts : account[a].identity \in {0, i}
        /\ \A t \in tokens : t[2] = i

----------------------------------------------------------------------------
(* The inductive invariant behind it.  The identity of the number is 1,     *)
(* since the advisory lock admits one request between its look-up, which    *)
(* found none, and the insert.                                              *)

\* A request carries no other identity, and one that will issue a token or save
\* an account has looked it up.
VisitSound(x) ==
    /\ x.next \in {"idle", "accounts", "select", "token"}
    /\ x.identity \in {0, 1} /\ x.image.identity \in {0, 1}
    /\ x.pc \in {"link", "attach"} => x.found = 1
    /\ x.pc \in {"accounts", "select", "token"} \/ x.next = "select" => x.identity = 1
    /\ x.pc \in {"token", "saving", "writing", "reinsert"} \/ x.next = "token" => x.account \in Accounts

\* The requests that hold the advisory lock.
Holders == {v \in Visits : visit[v].pc \in {"users", "create", "link", "attach"}}

PhoneInv ==
    /\ PhoneTypeOK
    /\ persons \subseteq {1} /\ phoneRow \in {0, 1}
    /\ \A a \in Accounts : account[a].identity \in {0, 1}
    /\ \A t \in tokens : t[2] = 1
    /\ \A v \in Visits : VisitSound(visit[v])
    /\ \A v, w \in Holders : v = w
    /\ \A v \in Visits : visit[v].pc \in {"users", "create"} => persons = {}

==============================================================================
