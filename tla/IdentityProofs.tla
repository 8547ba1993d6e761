---------------------------- MODULE IdentityProofs ----------------------------
(***************************************************************************)
(* What is proved about the accounts of the identity service: the one      *)
(* identity of a phone number, however logins, sign-ups, deletions and     *)
(* edits of the number overlap.  PhoneInv holds initially and is kept by   *)
(* every step, and the property is read off it.                            *)
(***************************************************************************)
EXTENDS PhoneAccounts, FiniteSetTheorems, TLAPS


\* The number of the one identity is a number of the model.
LEMMA OneIsIdentity == 1 \in Identities
BY PhoneAssumption DEF Identities

\* A request may end in any state.
LEMMA IdleIsSound == Idle \in VisitRecord /\ VisitSound(Idle) /\ Idle.pc = "idle"
BY DEF Idle, VisitRecord, VisitSound, VisitPc, NoAccount, AccountRow

\* A step of one request: it enters the lock only when that is free, and inserts
\* an identity only while it holds the lock.
LEMMA VisitStep ==
    ASSUME PhoneInv, NEW v \in Visits, NEW x \in VisitRecord, VisitSound(x),
           visit' = [visit EXCEPT ![v] = x],
           x.pc \in {"users", "create", "link", "attach"} =>
               visit[v].pc \in {"users", "create", "link", "attach"} \/ LockFree,
           x.pc \in {"users", "create"} => persons' = {},
           persons' = persons \/ v \in Holders,
           account' \in [Accounts -> AccountRow], \A a \in Accounts : account'[a].identity \in {0, 1},
           persons' \subseteq {1}, phoneRow' \in {0, 1},
           tokens' = tokens \/ \E a \in Accounts : tokens' = tokens \cup {<<a, 1>>}
    PROVE  PhoneInv'
<1>1. visit \in [Visits -> VisitRecord] /\ tokens \subseteq Accounts \X Identities
  BY DEF PhoneInv, PhoneTypeOK
<1>2. \A w \in Visits : visit'[w] = IF w = v THEN x ELSE visit[w]
  BY <1>1
<1>3. visit' \in [Visits -> VisitRecord] /\ \A w \in Visits : VisitSound(visit'[w])
  BY <1>1, <1>2 DEF PhoneInv
<1>4. \A w \in Visits : VisitSound(visit[w])'
  BY <1>3 DEF VisitSound
<1>5. \A w, u \in Holders' : w = u
  <2>1. \A w \in Holders' : w = v \/ w \in Holders
    BY <1>2 DEF Holders
  <2>2. v \in Holders' => v \in Holders \/ Holders = {}
    BY <1>2 DEF Holders, LockFree
  <2>3. QED
    BY <2>1, <2>2 DEF PhoneInv
<1>6. \A w \in Visits : visit'[w].pc \in {"users", "create"} => persons' = {}
  <2> SUFFICES ASSUME NEW w \in Visits, w # v, visit[w].pc \in {"users", "create"}
               PROVE  persons' = {}
    BY <1>2
  <2>1. w \in Holders
    BY DEF Holders
  <2>2. v \notin Holders
    BY <2>1 DEF PhoneInv
  <2>3. QED
    BY <2>2 DEF PhoneInv
<1>7. tokens' \subseteq Accounts \X Identities /\ \A t \in tokens' : t[2] = 1
  BY <1>1, OneIsIdentity DEF PhoneInv
<1>8. persons' \subseteq Identities /\ phoneRow' \in {0} \cup Identities
  BY OneIsIdentity
<1>9. QED
  BY <1>3, <1>4, <1>5, <1>6, <1>7, <1>8 DEF PhoneInv, PhoneTypeOK

\* A request that ends, whatever it has written.
LEMMA EndStep ==
    ASSUME PhoneInv, NEW v \in Visits, End(v), persons' = persons \/ v \in Holders,
           account' \in [Accounts -> AccountRow], \A a \in Accounts : account'[a].identity \in {0, 1},
           persons' \subseteq {1}, phoneRow' \in {0, 1},
           tokens' = tokens \/ \E a \in Accounts : tokens' = tokens \cup {<<a, 1>>}
    PROVE  PhoneInv'
<1>1. visit' = [visit EXCEPT ![v] = Idle]
  BY DEF End
<1>2. QED
  BY <1>1, IdleIsSound, VisitStep

\* A request that goes to another position.
LEMMA GotoStep ==
    ASSUME PhoneInv, NEW v \in Visits, NEW pc \in VisitPc, Goto(v, pc)
    PROVE  \E x \in VisitRecord :
              /\ visit' = [visit EXCEPT ![v] = x]
              /\ x.pc = pc /\ x.next = visit[v].next /\ x.account = visit[v].account
              /\ x.identity = visit[v].identity /\ x.found = visit[v].found
              /\ x.image = visit[v].image
<1>1. visit \in [Visits -> VisitRecord]
  BY DEF PhoneInv, PhoneTypeOK
<1>2. PICK x : x = [visit[v] EXCEPT !.pc = pc]
  OBVIOUS
<1>3. visit' = [visit EXCEPT ![v] = x]
  BY <1>1, <1>2 DEF Goto
<1>4. /\ x \in VisitRecord /\ x.pc = pc /\ x.next = visit[v].next /\ x.account = visit[v].account
      /\ x.identity = visit[v].identity /\ x.found = visit[v].found /\ x.image = visit[v].image
  BY <1>1, <1>2 DEF VisitRecord
<1>5. QED
  BY <1>3, <1>4

\* What every step starts from.
LEMMA PhoneFacts ==
    ASSUME PhoneInv, NEW v \in Visits
    PROVE  /\ visit \in [Visits -> VisitRecord] /\ visit[v] \in VisitRecord /\ VisitSound(visit[v])
           /\ account \in [Accounts -> AccountRow] /\ \A a \in Accounts : account[a].identity \in {0, 1}
           /\ persons \subseteq {1} /\ phoneRow \in {0, 1}
BY DEF PhoneInv, PhoneTypeOK

\* Steps that go to another position and change nothing else.
LEMMA PlainGoto ==
    ASSUME PhoneInv, NEW v \in Visits, NEW pc \in VisitPc, Goto(v, pc),
           pc \notin {"users", "create", "link", "attach"},
           pc \in {"accounts", "select", "token"} => visit[v].identity = 1,
           pc \in {"token", "saving", "writing", "reinsert"} => visit[v].account \in Accounts,
           account' \in [Accounts -> AccountRow], \A a \in Accounts : account'[a].identity \in {0, 1},
           UNCHANGED <<persons, phoneRow, tokens>>
    PROVE  PhoneInv'
<1>1. PICK x \in VisitRecord :
              /\ visit' = [visit EXCEPT ![v] = x]
              /\ x.pc = pc /\ x.next = visit[v].next /\ x.account = visit[v].account
              /\ x.identity = visit[v].identity /\ x.found = visit[v].found
              /\ x.image = visit[v].image
  BY GotoStep
<1>2. VisitSound(x)
  BY <1>1, PhoneFacts DEF VisitSound
<1>3. QED
  BY <1>1, <1>2, PhoneFacts, VisitStep

\* findOrCreateByPhone returns its identity to where it was called from.
LEMMA ReturnStep ==
    ASSUME PhoneInv, NEW v \in Visits, Return(v, 1)
    PROVE  \E x \in VisitRecord :
              /\ visit' = [visit EXCEPT ![v] = x] /\ VisitSound(x)
              /\ x.pc \notin {"users", "create", "link", "attach"}
<1>1. visit[v] \in VisitRecord /\ VisitSound(visit[v])
  BY PhoneFacts
<1>2. CASE visit[v].next = "idle"
  BY <1>2, IdleIsSound DEF Return
<1>3. CASE visit[v].next # "idle"
  <2>1. PICK j \in {0} \cup Identities : j = IF visit[v].identity = 0 THEN 1 ELSE visit[v].identity
    BY <1>1, OneIsIdentity DEF VisitRecord
  <2>2. PICK x : x = [visit[v] EXCEPT !.pc = visit[v].next, !.found = 0, !.users = FALSE, !.identity = j]
    OBVIOUS
  <2>3. /\ x \in VisitRecord /\ x.pc = visit[v].next /\ x.next = visit[v].next /\ x.identity = j
        /\ x.account = visit[v].account /\ x.image = visit[v].image
    BY <1>1, <2>2 DEF VisitRecord
  <2>4. visit' = [visit EXCEPT ![v] = x]
    BY <1>3, <2>1, <2>2 DEF Return
  <2>5. j = 1 /\ visit[v].next \in {"accounts", "select", "token"}
    BY <1>1, <1>3, <2>1 DEF VisitSound
  <2>6. VisitSound(x)
    BY <1>1, <2>3, <2>5 DEF VisitSound
  <2>7. QED
    BY <2>3, <2>4, <2>5, <2>6
<1>4. QED
  BY <1>2, <1>3

\* The look-up under the lock: what it finds is the identity 1.
LEMMA FindKeeps ==
    ASSUME PhoneInv, NEW v \in Visits, FindIdentity(v)
    PROVE  PhoneInv'
<1>1. /\ visit[v].pc = "find" /\ LockFree /\ UNCHANGED <<account, persons, phoneRow, tokens>>
  BY DEF FindIdentity
<1>2. visit[v] \in VisitRecord /\ VisitSound(visit[v])
  BY PhoneFacts
<1>3. CASE persons = {}
  <2>1. Goto(v, "users") /\ "users" \in VisitPc
    BY <1>3 DEF FindIdentity, VisitPc
  <2>2. PICK x \in VisitRecord :
              /\ visit' = [visit EXCEPT ![v] = x]
              /\ x.pc = "users" /\ x.next = visit[v].next /\ x.account = visit[v].account
              /\ x.identity = visit[v].identity /\ x.image = visit[v].image
    BY <2>1, GotoStep
  <2>3. VisitSound(x)
    BY <1>2, <2>2 DEF VisitSound
  <2>4. QED
    BY <1>1, <1>3, <2>2, <2>3, PhoneFacts, VisitStep
<1>4. CASE persons # {}
  <2>1. PICK i \in (IF phoneRow # 0 THEN {phoneRow} ELSE persons) :
            visit' = [visit EXCEPT ![v].pc = "link", ![v].found = i]
    BY <1>4 DEF FindIdentity
  <2>2. i = 1
    BY <2>1, PhoneFacts
  <2>3. PICK x : x = [visit[v] EXCEPT !.pc = "link", !.found = 1]
    OBVIOUS
  <2>4. visit' = [visit EXCEPT ![v] = x]
    BY <2>1, <2>2, <2>3, PhoneFacts DEF VisitRecord
  <2>5. /\ x \in VisitRecord /\ x.pc = "link" /\ x.found = 1 /\ x.next = visit[v].next
        /\ x.account = visit[v].account /\ x.identity = visit[v].identity /\ x.image = visit[v].image
    BY <1>2, <2>3, OneIsIdentity DEF VisitRecord, VisitPc
  <2>6. VisitSound(x)
    BY <1>2, <2>5 DEF VisitSound
  <2>7. QED
    BY <1>1, <2>4, <2>5, <2>6, PhoneFacts, VisitStep
<1>5. QED
  BY <1>3, <1>4

\* The users of the number are read by a request that found no identity.
LEMMA ReadUsersKeeps ==
    ASSUME PhoneInv, NEW v \in Visits, ReadUsers(v)
    PROVE  PhoneInv'
<1>1. /\ visit[v].pc = "users" /\ UNCHANGED <<account, persons, phoneRow, tokens>> /\ persons = {}
  BY DEF ReadUsers, PhoneInv
<1>2. visit[v] \in VisitRecord /\ VisitSound(visit[v])
  BY PhoneFacts
<1>3. PICK b \in BOOLEAN : b = (WithPhone # {})
  OBVIOUS
<1>4. PICK x : x = [visit[v] EXCEPT !.pc = "create", !.users = b]
  OBVIOUS
<1>5. visit' = [visit EXCEPT ![v] = x]
  BY <1>3, <1>4, PhoneFacts DEF ReadUsers, VisitRecord
<1>6. /\ x \in VisitRecord /\ x.pc = "create" /\ x.next = visit[v].next
      /\ x.account = visit[v].account /\ x.identity = visit[v].identity /\ x.image = visit[v].image
  BY <1>2, <1>4 DEF VisitRecord, VisitPc
<1>7. VisitSound(x)
  BY <1>2, <1>6 DEF VisitSound
<1>8. QED
  BY <1>1, <1>5, <1>6, <1>7, PhoneFacts, VisitStep

\* The insert, under the lock since the look-up found nothing: the first identity.
LEMMA CreateKeeps ==
    ASSUME PhoneInv, NEW v \in Visits, CreateIdentity(v)
    PROVE  PhoneInv'
<1>1. /\ visit[v].pc = "create" /\ UNCHANGED <<account, tokens>> /\ persons = {} /\ v \in Holders
  BY DEF CreateIdentity, PhoneInv, Holders
<1>2. CASE End(v) /\ UNCHANGED <<persons, phoneRow>>
  BY <1>1, <1>2, PhoneFacts, EndStep
<1>3. ASSUME NEW i \in Identities, i = Cardinality(persons) + 1, persons' = persons \cup {i},
             Attach(i), Return(v, i)
      PROVE  PhoneInv'
  <2>1. i = 1
    BY <1>1, <1>3, FS_EmptySet
  <2>2. PICK x \in VisitRecord :
            /\ visit' = [visit EXCEPT ![v] = x] /\ VisitSound(x)
            /\ x.pc \notin {"users", "create", "link", "attach"}
    BY <1>3, <2>1, ReturnStep
  <2>3. persons' \subseteq {1} /\ phoneRow' \in {0, 1}
    BY <1>1, <1>3, <2>1, PhoneFacts DEF Attach
  <2>4. QED
    BY <1>1, <2>2, <2>3, PhoneFacts, VisitStep
<1>4. QED
  BY <1>2, <1>3 DEF CreateIdentity

\* The link of the users to the identity found.
LEMMA LinkKeeps ==
    ASSUME PhoneInv, NEW v \in Visits, LinkUsers(v)
    PROVE  PhoneInv'
<1>1. /\ visit[v].pc = "link" /\ UNCHANGED <<persons, phoneRow, tokens>> /\ visit[v].found = 1
      /\ visit[v] \in VisitRecord /\ VisitSound(visit[v])
  BY PhoneFacts DEF LinkUsers, VisitSound
<1>2. CASE UNCHANGED account /\ visit[v].next = "select" /\ Goto(v, "select")
  <2>1. "select" \in VisitPc /\ visit[v].identity = 1
    BY <1>1, <1>2 DEF VisitPc, VisitSound
  <2>2. QED
    BY <1>1, <1>2, <2>1, PhoneFacts, PlainGoto
<1>3. CASE UNCHANGED account /\ End(v)
  BY <1>1, <1>3, PhoneFacts, EndStep
<1>4. CASE /\ account' = [a \in Accounts |->
                 [account[a] EXCEPT !.identity = IF a \in WithoutIdentity THEN visit[v].found ELSE @]]
           /\ Goto(v, "attach")
  <2>1. PICK x \in VisitRecord :
              /\ visit' = [visit EXCEPT ![v] = x]
              /\ x.pc = "attach" /\ x.next = visit[v].next /\ x.account = visit[v].account
              /\ x.identity = visit[v].identity /\ x.found = visit[v].found /\ x.image = visit[v].image
    BY <1>4, GotoStep DEF VisitPc
  <2>2. VisitSound(x)
    BY <1>1, <2>1 DEF VisitSound
  <2>3. ASSUME NEW a \in Accounts
        PROVE  account'[a] \in AccountRow /\ account'[a].identity \in {0, 1}
    <3>1. PICK j \in {0, 1} : j = IF a \in WithoutIdentity THEN 1 ELSE account[a].identity
      BY PhoneFacts
    <3>2. account'[a] = [account[a] EXCEPT !.identity = j] /\ account[a] \in AccountRow
      BY <1>1, <1>4, <3>1, PhoneFacts
    <3>3. QED
      BY <3>1, <3>2, OneIsIdentity DEF AccountRow
  <2>4. account' \in [Accounts -> AccountRow]
    BY <1>4, <2>3
  <2>5. QED
    BY <1>1, <2>1, <2>2, <2>3, <2>4, PhoneFacts, VisitStep
<1>5. QED
  BY <1>2, <1>3, <1>4 DEF LinkUsers

\* The number is attached to the identity found, unless it already is.
LEMMA AttachKeeps ==
    ASSUME PhoneInv, NEW v \in Visits, AttachPhone(v)
    PROVE  PhoneInv'
<1>1. /\ Attach(1) /\ Return(v, 1) /\ UNCHANGED <<account, persons, tokens>>
  BY PhoneFacts DEF AttachPhone, VisitSound
<1>2. PICK x \in VisitRecord :
          /\ visit' = [visit EXCEPT ![v] = x] /\ VisitSound(x)
          /\ x.pc \notin {"users", "create", "link", "attach"}
  BY <1>1, ReturnStep
<1>3. phoneRow' \in {0, 1}
  BY <1>1, PhoneFacts DEF Attach
<1>4. QED
  BY <1>1, <1>2, <1>3, PhoneFacts, VisitStep

\* A token is issued for an account and the identity the request has looked up.
LEMMA IssueStep ==
    ASSUME PhoneInv, NEW v \in Visits, End(v), NEW a \in Accounts, Issue(a, 1),
           UNCHANGED <<account, persons, phoneRow>>
    PROVE  PhoneInv'
<1>1. tokens' = tokens \cup {<<a, 1>>}
  BY DEF Issue
<1>2. QED
  BY <1>1, PhoneFacts, EndStep

\* Requests that begin: a login with an OTP, a sign-up.
LEMMA BeginKeeps ==
    ASSUME PhoneInv, NEW v \in Visits, verifyOtp(v) \/ createUser(v)
    PROVE  PhoneInv'
<1>1. UNCHANGED <<account, persons, phoneRow, tokens>>
  BY DEF verifyOtp, createUser
<1>2. CASE verifyOtp(v)
  <2>1. PICK x : x = [visit[v] EXCEPT !.pc = "find", !.next = "accounts"]
    OBVIOUS
  <2>2. visit' = [visit EXCEPT ![v] = x]
    BY <1>2, <2>1, PhoneFacts DEF verifyOtp, VisitRecord
  <2>3. /\ x \in VisitRecord /\ x.pc = "find" /\ x.next = "accounts"
        /\ x.account = visit[v].account /\ x.identity = visit[v].identity /\ x.image = visit[v].image
    BY <2>1, PhoneFacts DEF VisitRecord, VisitPc
  <2>4. VisitSound(x)
    BY <2>3, PhoneFacts DEF VisitSound
  <2>5. QED
    BY <1>1, <2>2, <2>3, <2>4, PhoneFacts, VisitStep
<1>3. CASE createUser(v)
  <2>1. Goto(v, "check") /\ "check" \in VisitPc
    BY <1>3 DEF createUser, VisitPc
  <2>2. QED
    BY <1>1, <2>1, PhoneFacts, PlainGoto
<1>4. QED
  BY <1>2, <1>3

\* The accounts of the number, read after its identity.
LEMMA ReadAccountsKeeps ==
    ASSUME PhoneInv, NEW v \in Visits, ReadAccounts(v)
    PROVE  PhoneInv'
<1>1. /\ visit[v].identity = 1 /\ UNCHANGED <<account, persons, phoneRow>>
      /\ visit[v] \in VisitRecord /\ VisitSound(visit[v])
  BY PhoneFacts DEF ReadAccounts, VisitSound
<1>2. CASE WithPhone # {}
  <2>1. PICK a \in WithPhone : Issue(a, 1)
    BY <1>1, <1>2 DEF ReadAccounts
  <2>2. a \in Accounts /\ End(v)
    BY <1>2 DEF WithPhone, ReadAccounts
  <2>3. QED
    BY <1>1, <2>1, <2>2, IssueStep
<1>3. CASE WithPhone = {}
  <2>1. PICK x : x = [visit[v] EXCEPT !.pc = "insert", !.next = "select"]
    OBVIOUS
  <2>2. visit' = [visit EXCEPT ![v] = x] /\ UNCHANGED tokens
    BY <1>3, <2>1, PhoneFacts DEF ReadAccounts, VisitRecord
  <2>3. /\ x \in VisitRecord /\ x.pc = "insert" /\ x.next = "select"
        /\ x.account = visit[v].account /\ x.identity = visit[v].identity /\ x.image = visit[v].image
    BY <1>1, <2>1 DEF VisitRecord, VisitPc
  <2>4. VisitSound(x)
    BY <1>1, <2>3 DEF VisitSound
  <2>5. QED
    BY <1>1, <2>2, <2>3, <2>4, PhoneFacts, VisitStep
<1>4. QED
  BY <1>2, <1>3

\* The check and the insert of a sign-up.
LEMMA SignUpKeeps ==
    ASSUME PhoneInv, NEW v \in Visits, CheckPhone(v) \/ InsertAccount(v)
    PROVE  PhoneInv'
<1>1. /\ UNCHANGED <<persons, phoneRow, tokens>> /\ VisitSound(visit[v])
      /\ {"insert", "select", "find"} \subseteq VisitPc
  BY PhoneFacts DEF CheckPhone, InsertAccount, VisitPc
<1>2. CASE CheckPhone(v)
  <2>1. UNCHANGED account /\ (End(v) \/ Goto(v, "insert"))
    BY <1>2 DEF CheckPhone
  <2>2. CASE End(v)
    BY <1>1, <2>1, <2>2, PhoneFacts, EndStep
  <2>3. CASE Goto(v, "insert")
    BY <1>1, <2>1, <2>3, PhoneFacts, PlainGoto
  <2>4. QED
    BY <2>1, <2>2, <2>3
<1>3. CASE InsertAccount(v) /\ WithPhone # {}
  <2>1. UNCHANGED account /\ ((visit[v].next = "select" /\ Goto(v, "select")) \/ End(v))
    BY <1>3 DEF InsertAccount
  <2>2. CASE End(v)
    BY <1>1, <2>1, <2>2, PhoneFacts, EndStep
  <2>3. CASE visit[v].next = "select" /\ Goto(v, "select")
    <3>1. visit[v].identity = 1
      BY <1>1, <2>3 DEF VisitSound
    <3>2. QED
      BY <1>1, <2>1, <2>3, <3>1, PhoneFacts, PlainGoto
  <2>4. QED
    BY <2>1, <2>2, <2>3
<1>4. CASE InsertAccount(v) /\ WithPhone = {}
  <2>1. PICK a \in Accounts : account' = [account EXCEPT ![a] = NewAccount] /\ Goto(v, "find")
    BY <1>4 DEF InsertAccount
  <2>2. NewAccount \in AccountRow /\ NewAccount.identity = 0
    BY DEF NewAccount, AccountRow
  <2>3. account' \in [Accounts -> AccountRow] /\ \A b \in Accounts : account'[b].identity \in {0, 1}
    BY <2>1, <2>2, PhoneFacts
  <2>4. QED
    BY <1>1, <2>1, <2>3, PlainGoto
<1>5. QED
  BY <1>2, <1>3, <1>4

\* The token of an account that was there before, and of a login with a PIN.
LEMMA TokenKeeps ==
    ASSUME PhoneInv, NEW v \in Visits,
           \/ SelectAccount(v) \/ TokenAfterPin(v)
           \/ \E a \in Accounts : verifyPin(v, a)
    PROVE  PhoneInv'
<1>1. UNCHANGED <<account, persons, phoneRow>> /\ visit[v] \in VisitRecord /\ VisitSound(visit[v])
  BY PhoneFacts DEF SelectAccount, TokenAfterPin, verifyPin
<1>2. CASE SelectAccount(v)
  <2>1. End(v) /\ visit[v].identity = 1
    BY <1>1, <1>2 DEF SelectAccount, VisitSound
  <2>2. tokens' = tokens \/ \E a \in Accounts : Issue(a, 1)
    BY <1>2, <2>1 DEF SelectAccount, WithPhone
  <2>3. CASE tokens' = tokens
    BY <1>1, <2>1, <2>3, PhoneFacts, EndStep
  <2>4. ASSUME NEW a \in Accounts, Issue(a, 1)
        PROVE  PhoneInv'
    BY <1>1, <2>1, <2>4, IssueStep
  <2>5. QED
    BY <2>2, <2>3, <2>4
<1>3. CASE TokenAfterPin(v)
  <2>1. visit[v].account \in Accounts /\ visit[v].identity = 1 /\ End(v) /\ Issue(visit[v].account, 1)
    BY <1>1, <1>3 DEF TokenAfterPin, VisitSound
  <2>2. QED
    BY <1>1, <2>1, IssueStep
<1>4. ASSUME NEW a \in Accounts, verifyPin(v, a)
      PROVE  PhoneInv'
  <2>1. CASE account[a].identity # 0
    <3>1. Issue(a, 1) /\ UNCHANGED visit
      BY <1>4, <2>1, PhoneFacts DEF verifyPin
    <3>2. tokens' = tokens \cup {<<a, 1>>} /\ visit' = [visit EXCEPT ![v] = visit[v]]
      BY <3>1, PhoneFacts DEF Issue
    <3>3. visit[v].pc = "idle"
      BY <1>4 DEF verifyPin
    <3>4. QED
      BY <1>1, <3>2, <3>3, PhoneFacts, VisitStep
  <2>2. CASE account[a].identity = 0
    <3>1. PICK x : x = [visit[v] EXCEPT !.pc = "find", !.next = "token", !.account = a]
      OBVIOUS
    <3>2. visit' = [visit EXCEPT ![v] = x] /\ UNCHANGED tokens
      BY <1>4, <2>2, <3>1, PhoneFacts DEF verifyPin, VisitRecord
    <3>3. /\ x \in VisitRecord /\ x.pc = "find" /\ x.next = "token" /\ x.account = a
          /\ x.identity = visit[v].identity /\ x.image = visit[v].image
      BY <1>1, <3>1 DEF VisitRecord, VisitPc
    <3>4. VisitSound(x)
      BY <1>1, <3>3 DEF VisitSound
    <3>5. QED
      BY <1>1, <3>2, <3>3, <3>4, PhoneFacts, VisitStep
  <2>3. QED
    BY <2>1, <2>2
<1>5. QED
  BY <1>2, <1>3, <1>4

\* An entity is read to be saved: with a new PIN, or anonymised.
LEMMA EditKeeps ==
    ASSUME PhoneInv, NEW v \in Visits, NEW a \in Accounts, setPin(v, a) \/ requestAccountDeletion(v, a)
    PROVE  PhoneInv'
<1>1. /\ UNCHANGED <<account, persons, phoneRow, tokens>> /\ visit[v] \in VisitRecord /\ VisitSound(visit[v])
      /\ account[a] \in AccountRow /\ account[a].identity \in {0, 1}
  BY PhoneFacts DEF setPin, requestAccountDeletion
<1>2. PICK image \in AccountRow : /\ image.identity \in {0, 1}
          /\ visit' = [visit EXCEPT ![v].pc = "saving", ![v].account = a, ![v].image = image]
  <2>1. CASE setPin(v, a)
    BY <1>1, <2>1 DEF setPin
  <2>2. CASE requestAccountDeletion(v, a)
    <3>1. PICK image : image = [account[a] EXCEPT !.phone = "deleted"]
      OBVIOUS
    <3>2. image \in AccountRow /\ image.identity \in {0, 1}
      BY <1>1, <3>1 DEF AccountRow
    <3>3. visit' = [visit EXCEPT ![v].pc = "saving", ![v].account = a, ![v].image = image]
      BY <2>2, <3>1 DEF requestAccountDeletion
    <3>4. QED
      BY <3>2, <3>3
  <2>3. QED
    BY <2>1, <2>2
<1>3. PICK x : x = [visit[v] EXCEPT !.pc = "saving", !.account = a, !.image = image]
  OBVIOUS
<1>4. visit' = [visit EXCEPT ![v] = x]
  BY <1>2, <1>3, PhoneFacts DEF VisitRecord
<1>5. /\ x \in VisitRecord /\ x.pc = "saving" /\ x.next = visit[v].next /\ x.account = a
      /\ x.identity = visit[v].identity /\ x.image = image
  BY <1>1, <1>2, <1>3 DEF VisitRecord, VisitPc
<1>6. VisitSound(x)
  BY <1>1, <1>2, <1>5 DEF VisitSound
<1>7. QED
  BY <1>1, <1>4, <1>5, <1>6, PhoneFacts, VisitStep

\* repository.save: the second reading, and the write of the columns that differed.
LEMMA SaveKeeps ==
    ASSUME PhoneInv, NEW v \in Visits, SaveReads(v) \/ SaveWrites(v)
    PROVE  PhoneInv'
<1>1. /\ UNCHANGED <<persons, phoneRow, tokens>> /\ visit[v] \in VisitRecord /\ VisitSound(visit[v])
      /\ visit[v].account \in Accounts /\ account[visit[v].account] \in AccountRow
      /\ visit[v].image \in AccountRow
  BY PhoneFacts DEF SaveReads, SaveWrites, VisitSound, VisitRecord
<1>2. DOMAIN account[visit[v].account] = {"phone", "identity"}
  BY <1>1 DEF AccountRow
<1>3. CASE SaveReads(v) /\ ~Stored(visit[v].account)
  <2>1. Goto(v, "reinsert") /\ UNCHANGED account /\ "reinsert" \in VisitPc
    BY <1>3 DEF SaveReads, VisitPc
  <2>2. QED
    BY <1>1, <2>1, PhoneFacts, PlainGoto
<1>4. CASE SaveReads(v) /\ Stored(visit[v].account)
  <2>1. PICK cols \in SUBSET {"phone", "identity"} : cols = Changed(visit[v].image, account[visit[v].account])
    BY <1>2 DEF Changed
  <2>2. PICK x : x = [visit[v] EXCEPT !.pc = "writing", !.cols = cols]
    OBVIOUS
  <2>3. visit' = [visit EXCEPT ![v] = x] /\ UNCHANGED account
    BY <1>4, <2>1, <2>2, PhoneFacts DEF SaveReads, VisitRecord
  <2>4. /\ x \in VisitRecord /\ x.pc = "writing" /\ x.next = visit[v].next /\ x.account = visit[v].account
        /\ x.identity = visit[v].identity /\ x.image = visit[v].image
    BY <1>1, <2>2 DEF VisitRecord, VisitPc
  <2>5. VisitSound(x)
    BY <1>1, <2>4 DEF VisitSound
  <2>6. QED
    BY <1>1, <2>3, <2>4, <2>5, PhoneFacts, VisitStep
<1>5. CASE SaveWrites(v)
  <2>1. PICK row \in AccountRow : /\ row.identity \in {0, 1}
            /\ row = IF visit[v].pc = "reinsert" THEN visit[v].image
                     ELSE Updated(visit[v].image, visit[v].cols, account[visit[v].account])
    <3>1. visit[v].image.identity \in {0, 1} /\ account[visit[v].account].identity \in {0, 1}
      BY <1>1, PhoneFacts DEF VisitSound
    <3>2. PICK row : row = Updated(visit[v].image, visit[v].cols, account[visit[v].account])
      OBVIOUS
    <3>3. row \in AccountRow /\ row.identity \in {0, 1}
      BY <1>1, <1>2, <3>1, <3>2 DEF Updated, AccountRow
    <3>4. QED
      BY <1>1, <3>1, <3>2, <3>3
  <2>2. account' = account \/ account' = [account EXCEPT ![visit[v].account] = row]
    BY <1>5, <2>1 DEF SaveWrites
  <2>3. account' \in [Accounts -> AccountRow] /\ \A b \in Accounts : account'[b].identity \in {0, 1}
    BY <1>1, <2>1, <2>2, PhoneFacts
  <2>4. End(v)
    BY <1>5 DEF SaveWrites
  <2>5. QED
    BY <1>1, <2>3, <2>4, PhoneFacts, EndStep
<1>6. QED
  BY <1>3, <1>4, <1>5

\* An account's row is deleted, whoever is at work on it.
LEMMA DeleteKeeps ==
    ASSUME PhoneInv, NEW a \in Accounts, deleteAccount(a)
    PROVE  PhoneInv'
<1>1. /\ account' = [account EXCEPT ![a] = [phone |-> "gone", identity |-> 0]]
      /\ UNCHANGED <<persons, phoneRow, visit, tokens>> /\ account \in [Accounts -> AccountRow]
      /\ \A b \in Accounts : account[b].identity \in {0, 1}
  BY DEF deleteAccount, PhoneInv, PhoneTypeOK
<1>2. [phone |-> "gone", identity |-> 0] \in AccountRow
  BY DEF AccountRow
<1>3. account' \in [Accounts -> AccountRow] /\ \A b \in Accounts : account'[b].identity \in {0, 1}
  BY <1>1, <1>2
<1>4. QED
  BY <1>1, <1>3 DEF PhoneInv, PhoneTypeOK, VisitSound, Holders

\* The invariant of the number, initially and after every step.
LEMMA PhoneInvHolds == PhoneSpec => []PhoneInv
<1>1. PhoneInit => PhoneInv
  <2> SUFFICES ASSUME PhoneInit PROVE PhoneInv
    OBVIOUS
  <2>1. NoAccount \in AccountRow /\ NewAccount \in AccountRow /\ NoAccount.identity = 0 /\ NewAccount.identity = 0
    BY DEF NoAccount, NewAccount, AccountRow
  <2>2. account \in [Accounts -> AccountRow] /\ \A a \in Accounts : account[a].identity \in {0, 1}
    BY <2>1 DEF PhoneInit
  <2>3. /\ visit \in [Visits -> VisitRecord] /\ \A v \in Visits : VisitSound(visit[v]) /\ visit[v].pc = "idle"
    BY IdleIsSound DEF PhoneInit
  <2>4. persons \subseteq {1} /\ persons \subseteq Identities /\ phoneRow = 0 /\ tokens = {}
    BY OneIsIdentity DEF PhoneInit
  <2>5. QED
    BY <2>2, <2>3, <2>4 DEF PhoneInv, PhoneTypeOK, Holders
<1>2. PhoneInv /\ [PhoneNext]_phoneVars => PhoneInv'
  <2> SUFFICES ASSUME PhoneInv, [PhoneNext]_phoneVars
               PROVE  PhoneInv'
    OBVIOUS
  <2>1. CASE UNCHANGED phoneVars
    BY <2>1 DEF phoneVars, PhoneInv, PhoneTypeOK, VisitSound, Holders
  <2>2. ASSUME NEW v \in Visits, VisitLost(v)
        PROVE  PhoneInv'
    BY <2>2, PhoneFacts, EndStep DEF VisitLost
  <2>3. CASE PhoneNext
    BY <2>2, <2>3, FindKeeps, ReadUsersKeeps, CreateKeeps, LinkKeeps, AttachKeeps, BeginKeeps,
       ReadAccountsKeeps, SignUpKeeps, TokenKeeps, EditKeeps, SaveKeeps, DeleteKeeps DEF PhoneNext
  <2>4. QED
    BY <2>1, <2>3
<1>3. QED
  BY <1>1, <1>2, PTL DEF PhoneSpec

\* However many requests for a number interleave, all its accounts, its row and
\* all tokens ever issued for it name one identity (findOrCreateByPhone).
THEOREM NumbersHaveOneIdentity == PhoneSpec => []OneIdentityPerPhone
<1>1. PhoneInv => OneIdentityPerPhone
  BY OneIsIdentity DEF PhoneInv, OneIdentityPerPhone
<1>2. QED
  BY <1>1, PhoneInvHolds, PTL
=============================================================================
