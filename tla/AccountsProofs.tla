--------------------------- MODULE AccountsProofs ---------------------------
(***************************************************************************)
(* Proofs about Accounts for every set of owners, users, tenants, e-mails, *)
(* passwords and connections, and every lifetime of tokens.                *)
(***************************************************************************)
EXTENDS Accounts, TLAPS

\* A registration whose transaction has not committed.
Pending(c) == Registering(c, "owner") \/ Registering(c, "user")

\* A tenant's login whose tokens are not signed yet.
LoggingIn(c) == requests[c] # Absent /\ requests[c].kind = "login"

\* What is read from the tables into a request has the shape of a row.
LEMMA RequestTypes ==
    ASSUME AccountsTypeOK, NEW c \in Conns
    PROVE  /\ \A step : Registering(c, step) =>
                 /\ requests[c] \in Registration
                 /\ requests[c].owner \in Owners /\ requests[c].user \in OwnerUsers
                 /\ requests[c].email \in Emails /\ requests[c].password \in Passwords
           /\ LoggingIn(c) =>
                 /\ requests[c] \in TenantLogin
                 /\ requests[c].tenant \in Tenants /\ requests[c].owner \in Owners
  BY DEF AccountsTypeOK, Registering, LoggingIn, Registration, TenantLogin

LEMMA RowTypes ==
    ASSUME AccountsTypeOK
    PROVE  /\ \A u \in OwnerUsers : owner_users[u] # Absent => owner_users[u] \in OwnerUser
           /\ \A t \in Tenants : tenants[t] # Absent => tenants[t] \in Tenant
           /\ \A tk \in tokens : tk \in Token
  BY DEF AccountsTypeOK

-----------------------------------------------------------------------------
(* Type correctness *)

LEMMA IssuedTypes ==
    ASSUME now \in Nat
    PROVE  /\ \A u \in OwnerUsers, o \in Owners : OwnerTokens(u, o) \subseteq Token
           /\ \A t \in Tenants, o \in Owners : TenantTokens(t, o) \subseteq Token
  <1>1. \A typ \in {"access", "refresh"} : now + TTL[typ] \in Int
    BY TimesAssumption DEF TTL
  <1>2. QED
    BY <1>1 DEF OwnerTokens, TenantTokens, Token

LEMMA RegisterTypes ==
    ASSUME AccountsTypeOK, NEW c \in Conns, Register(c)
    PROVE  AccountsTypeOK'
  <1>1. ASSUME NEW o \in Owners, NEW u \in OwnerUsers, NEW e \in Emails, NEW p \in Passwords,
               CreateOwner(c, o, u, e, p)
        PROVE  AccountsTypeOK'
    <2> DEFINE r == [kind |-> "register", step |-> "owner", owner |-> o, user |-> u,
                     email |-> e, password |-> p]
    <2>1. r \in Registration
      BY DEF Registration
    <2>2. QED
      BY <1>1, <2>1 DEF CreateOwner, AccountsTypeOK, tables
  <1>2. CASE CreateOwnerUser(c)
    <2>1. requests[c] \in Registration
      BY <1>2, RequestTypes DEF CreateOwnerUser
    <2>2. [requests[c] EXCEPT !.step = "user"] \in Registration
      BY <2>1 DEF Registration
    <2>3. QED
      BY <1>2, <2>2 DEF CreateOwnerUser, AccountsTypeOK, tables
  <1>3. CASE CommitRegistration(c)
    <2>1. requests[c] \in Registration /\ requests[c].owner \in Owners
          /\ requests[c].user \in OwnerUsers /\ requests[c].email \in Emails
          /\ requests[c].password \in Passwords
      BY <1>3, RequestTypes DEF CommitRegistration
    <2>2. [requests[c] EXCEPT !.step = "committed"] \in Registration
      BY <2>1 DEF Registration
    <2>3. [owner |-> requests[c].owner, email |-> requests[c].email,
           password |-> requests[c].password] \in OwnerUser
      BY <2>1 DEF OwnerUser
    <2>4. QED
      BY <1>3, <2>1, <2>2, <2>3 DEF CommitRegistration, AccountsTypeOK
  <1>4. CASE AnswerRegistration(c)
    <2>1. OwnerTokens(requests[c].user, requests[c].owner) \subseteq Token
      BY <1>4, RequestTypes, IssuedTypes DEF AnswerRegistration, AccountsTypeOK
    <2>2. QED
      BY <1>4, <2>1 DEF AnswerRegistration, AccountsTypeOK, tables
  <1>5. QED
    BY <1>1, <1>2, <1>3, <1>4 DEF Register

LEMMA LoginTypes ==
    ASSUME AccountsTypeOK,
           \/ LogIn \/ Refresh
           \/ \E c \in Conns : AnswerTenantLogin(c) \/ Crash(c)
    PROVE  AccountsTypeOK'
  <1>1. ASSUME NEW e \in Emails, NEW p \in Passwords, LoginOwner(e, p) PROVE AccountsTypeOK'
    <2>1. PICK u \in OwnerUsers :
            /\ owner_users[u] # Absent /\ UNCHANGED <<tables, requests, now>>
            /\ tokens' = tokens \cup OwnerTokens(u, owner_users[u].owner)
      BY <1>1 DEF LoginOwner
    <2>2. owner_users[u].owner \in Owners
      BY <2>1, RowTypes DEF OwnerUser
    <2>3. OwnerTokens(u, owner_users[u].owner) \subseteq Token
      BY <2>2, IssuedTypes DEF AccountsTypeOK
    <2>4. QED
      BY <2>1, <2>3 DEF AccountsTypeOK, tables
  <1>2. ASSUME NEW c \in Conns, NEW e \in Emails, NEW p \in Passwords, CheckTenantLogin(c, e, p)
        PROVE  AccountsTypeOK'
    <2>1. PICK t \in Tenants :
            /\ tenants[t] # Absent /\ UNCHANGED <<tables, tokens, now>>
            /\ requests' = [requests EXCEPT ![c] =
                              [kind |-> "login", tenant |-> t, owner |-> tenants[t].owner]]
      BY <1>2 DEF CheckTenantLogin, ByEmail
    <2>2. [kind |-> "login", tenant |-> t, owner |-> tenants[t].owner] \in TenantLogin
      BY <2>1, RowTypes DEF Tenant, TenantLogin
    <2>3. QED
      BY <2>1, <2>2 DEF AccountsTypeOK, tables
  <1>3. ASSUME NEW c \in Conns, AnswerTenantLogin(c) PROVE AccountsTypeOK'
    <2>1. TenantTokens(requests[c].tenant, requests[c].owner) \subseteq Token
      BY <1>3, RequestTypes, IssuedTypes DEF AnswerTenantLogin, LoggingIn, AccountsTypeOK
    <2>2. QED
      BY <1>3, <2>1 DEF AnswerTenantLogin, AccountsTypeOK, tables
  <1>4. ASSUME NEW c \in Conns, Crash(c) PROVE AccountsTypeOK'
    BY <1>4 DEF Crash, AccountsTypeOK, tables
  <1>5. ASSUME NEW tk \in tokens, RefreshOwner(tk) PROVE AccountsTypeOK'
    <2>1. tk.owner_user \in OwnerUsers /\ tk.owner \in Owners
      BY <1>5, RowTypes DEF RefreshOwner, ParseOwner, Token
    <2>2. OwnerTokens(tk.owner_user, tk.owner) \subseteq Token
      BY <2>1, IssuedTypes DEF AccountsTypeOK
    <2>3. QED
      BY <1>5, <2>2 DEF RefreshOwner, AccountsTypeOK, tables
  <1>6. ASSUME NEW tk \in tokens, RefreshTenant(tk) PROVE AccountsTypeOK'
    <2>1. tk.tenant \in Tenants /\ tk.owner \in Owners
      BY <1>6, RowTypes DEF RefreshTenant, ParseTenant, Token
    <2>2. TenantTokens(tk.tenant, tk.owner) \subseteq Token
      BY <2>1, IssuedTypes DEF AccountsTypeOK
    <2>3. QED
      BY <1>6, <2>2 DEF RefreshTenant, AccountsTypeOK, tables
  <1>7. QED
    BY <1>1, <1>2, <1>3, <1>4, <1>5, <1>6 DEF LogIn, Refresh

LEMMA ManageTypes == ASSUME AccountsTypeOK, ManageTenants PROVE AccountsTypeOK'
  <1>1. ASSUME NEW tk \in tokens, NEW t \in Tenants, NEW e \in Emails \cup {Absent},
               NEW p \in Passwords \cup {Absent}, CreateTenant(tk, t, e, p)
        PROVE  AccountsTypeOK'
    <2>1. [owner |-> tk.owner, email |-> e, password |-> p, deleted |-> FALSE] \in Tenant
      BY RowTypes DEF Token, Tenant
    <2>2. QED
      BY <1>1, <2>1 DEF CreateTenant, AccountsTypeOK
  <1>2. ASSUME NEW tk \in tokens, NEW t \in Tenants, NEW e \in Emails \cup {Absent},
               NEW p \in Passwords \cup {Absent}, UpdateTenant(tk, t, e, p)
        PROVE  AccountsTypeOK'
    <2> DEFINE email    == IF e = Absent THEN tenants[t].email ELSE e
               password == IF p = Absent THEN tenants[t].password ELSE p
    <2>1. tenants[t] \in Tenant
      BY <1>2, RowTypes DEF UpdateTenant, OwnTenant
    <2>2. email \in Emails \cup {Absent} /\ password \in Passwords \cup {Absent}
      BY <2>1 DEF Tenant
    <2>3. tenants' = [tenants EXCEPT ![t] = [@ EXCEPT !.email = email, !.password = password]]
      BY <1>2, <2>1 DEF UpdateTenant, AccountsTypeOK, Tenant
    <2> HIDE DEF email, password
    <2>4. [tenants[t] EXCEPT !.email = email, !.password = password] \in Tenant
      BY <2>1, <2>2 DEF Tenant
    <2>5. QED
      BY <1>2, <2>3, <2>4 DEF UpdateTenant, AccountsTypeOK
  <1>3. ASSUME NEW tk \in tokens, NEW t \in Tenants, DeleteTenant(tk, t) PROVE AccountsTypeOK'
    <2>1. tenants[t] \in Tenant /\ [tenants[t] EXCEPT !.deleted = TRUE] \in Tenant
      BY <1>3, RowTypes DEF DeleteTenant, OwnTenant, Tenant
    <2>2. QED
      BY <1>3, <2>1 DEF DeleteTenant, AccountsTypeOK
  <1>4. QED
    BY <1>1, <1>2, <1>3 DEF ManageTenants

LEMMA StepTypes == ASSUME AccountsTypeOK, [Next]_vars PROVE AccountsTypeOK'
  <1>1. CASE Tick
    BY <1>1 DEF Tick, AccountsTypeOK, tables
  <1>2. CASE UNCHANGED vars
    BY <1>2 DEF vars, tables, AccountsTypeOK
  <1>3. QED
    BY <1>1, <1>2, RegisterTypes, LoginTypes, ManageTypes DEF Next

\* Tables, requests and tokens keep their types.
THEOREM AccountsTypes == Spec => []AccountsTypeOK
  <1>1. Init => AccountsTypeOK
    BY DEF Init, AccountsTypeOK
  <1>2. QED
    BY <1>1, StepTypes, PTL DEF Spec

-----------------------------------------------------------------------------
(* Registrations *)

\* What a registration that has not committed is to insert is still free, and promised to
\* no other; one that has committed has its rows.
RegistrationsApart ==
    /\ \A c \in Conns : Pending(c) =>
          /\ owners[requests[c].owner] = Absent /\ owner_users[requests[c].user] = Absent
          /\ \A p \in Owners : owners[p] # requests[c].email
    /\ \A c, d \in Conns : Pending(c) /\ Pending(d) /\ c # d =>
          /\ requests[c].owner # requests[d].owner /\ requests[c].user # requests[d].user
          /\ requests[c].email # requests[d].email
    /\ \A c \in Conns : Registering(c, "committed") =>
          /\ owner_users[requests[c].user] # Absent
          /\ owner_users[requests[c].user].owner = requests[c].owner

AccountsInv == AccountsTypeOK /\ EveryOwnerHasOneLogin /\ RegistrationsApart

\* The rows of a committing registration.
LEMMA CommitEffect ==
    ASSUME AccountsInv, NEW c \in Conns, CommitRegistration(c)
    PROVE  LET o == requests[c].owner
               u == requests[c].user
           IN  /\ o \in Owners /\ u \in OwnerUsers /\ owners[o] = Absent /\ owner_users[u] = Absent
               /\ owners'[o] = requests[c].email /\ owners'[o] # Absent
               /\ \A p \in Owners : owners[p] # owners'[o]
               /\ \A p \in Owners \ {o} : owners'[p] = owners[p]
               /\ owner_users'[u] # Absent
               /\ owner_users'[u].owner = o /\ owner_users'[u].email = owners'[o]
               /\ \A v \in OwnerUsers \ {u} : owner_users'[v] = owner_users[v]
  <1> DEFINE row == [owner |-> requests[c].owner, email |-> requests[c].email,
                     password |-> requests[c].password]
  <1>1. /\ Registering(c, "user")
        /\ owners' = [owners EXCEPT ![requests[c].owner] = requests[c].email]
        /\ owner_users' = [owner_users EXCEPT ![requests[c].user] = row]
    BY DEF CommitRegistration
  <1>2. /\ requests[c].owner \in Owners /\ requests[c].user \in OwnerUsers
        /\ requests[c].email \in Emails /\ row \in OwnerUser
    BY <1>1, RequestTypes DEF AccountsInv, OwnerUser
  <1>3. requests[c].email # Absent /\ row # Absent
    BY <1>2, NoRowAssumption
  <1>4. row.owner = requests[c].owner /\ row.email = requests[c].email
    OBVIOUS
  <1> HIDE DEF row
  <1>5. QED
    BY <1>1, <1>2, <1>3, <1>4 DEF AccountsInv, AccountsTypeOK, RegistrationsApart, Pending

\* The requests of the other connections, and this one's parties, stay.
LEMMA CommitRequests ==
    ASSUME AccountsInv, NEW c \in Conns, CommitRegistration(c)
    PROVE  /\ Pending(c) /\ Registering(c, "committed")' /\ ~Pending(c)'
           /\ requests'[c].owner = requests[c].owner /\ requests'[c].user = requests[c].user
           /\ \A d \in Conns \ {c} : requests'[d] = requests[d]
  <1>1. requests[c] \in Registration /\ Registering(c, "user")
        /\ requests' = [requests EXCEPT ![c].step = "committed"]
    BY RequestTypes DEF CommitRegistration, AccountsInv
  <1>2. requests'[c] = [requests[c] EXCEPT !.step = "committed"]
    BY <1>1 DEF AccountsInv, AccountsTypeOK
  <1>3. [requests[c] EXCEPT !.step = "committed"] \in Registration
    BY <1>1 DEF Registration
  <1>4. requests'[c] # Absent /\ requests'[c].kind = "register" /\ requests'[c].step = "committed"
        /\ requests'[c].owner = requests[c].owner /\ requests'[c].user = requests[c].user
    BY <1>1, <1>2, <1>3, NoRowAssumption DEF Registration
  <1>5. QED
    BY <1>1, <1>4 DEF AccountsInv, AccountsTypeOK, Pending, Registering

LEMMA CommitKeepsLogins ==
    ASSUME AccountsInv, NEW c \in Conns, CommitRegistration(c)
    PROVE  EveryOwnerHasOneLogin'
  <1> DEFINE o == requests[c].owner
             u == requests[c].user
  <1>1. /\ o \in Owners /\ u \in OwnerUsers /\ owners[o] = Absent /\ owner_users[u] = Absent
        /\ owners'[o] # Absent /\ \A p \in Owners : owners[p] # owners'[o]
        /\ \A p \in Owners \ {o} : owners'[p] = owners[p]
        /\ owner_users'[u] # Absent
        /\ owner_users'[u].owner = o /\ owner_users'[u].email = owners'[o]
        /\ \A v \in OwnerUsers \ {u} : owner_users'[v] = owner_users[v]
    BY CommitEffect
  <1> HIDE DEF o, u
  <1>2. \A v \in OwnerUsers : owner_users[v] # Absent =>
           owner_users[v].owner \in Owners /\ owners[owner_users[v].owner] # Absent
    BY RowTypes DEF AccountsInv, EveryOwnerHasOneLogin, OwnerUser
  <1>3. ASSUME NEW p \in Owners, owners'[p] # Absent
        PROVE  \E w \in OwnerUsers :
                  /\ owner_users'[w] # Absent
                  /\ owner_users'[w].owner = p /\ owner_users'[w].email = owners'[p]
                  /\ \A v \in OwnerUsers \ {w} : owner_users'[v] # Absent => owner_users'[v].owner # p
    <2>1. CASE p = o
      <3>1. \A v \in OwnerUsers \ {u} : owner_users'[v] # Absent => owner_users'[v].owner # o
        BY <1>1, <1>2
      <3>2. QED
        BY <1>1, <2>1, <3>1
    <2>2. CASE p # o
      <3>1. PICK w \in OwnerUsers :
              /\ owner_users[w] # Absent
              /\ owner_users[w].owner = p /\ owner_users[w].email = owners[p]
              /\ \A v \in OwnerUsers \ {w} : owner_users[v] # Absent => owner_users[v].owner # p
        BY <1>1, <1>3, <2>2 DEF AccountsInv, EveryOwnerHasOneLogin
      <3>2. QED
        BY <1>1, <2>2, <3>1
    <2>3. QED
      BY <2>1, <2>2
  <1>4. \A v \in OwnerUsers : owner_users'[v] # Absent => owners'[owner_users'[v].owner] # Absent
    BY <1>1, <1>2
  <1>5. \A p, q \in Owners : owners'[p] # Absent /\ owners'[p] = owners'[q] => p = q
    BY <1>1 DEF AccountsInv, EveryOwnerHasOneLogin
  <1>6. QED
    BY <1>3, <1>4, <1>5 DEF EveryOwnerHasOneLogin

LEMMA CommitKeepsApart ==
    ASSUME AccountsInv, NEW c \in Conns, CommitRegistration(c)
    PROVE  RegistrationsApart'
  <1> DEFINE o == requests[c].owner
             u == requests[c].user
  <1>1. /\ o \in Owners /\ u \in OwnerUsers /\ owners'[o] = requests[c].email
        /\ \A p \in Owners \ {o} : owners'[p] = owners[p]
        /\ owner_users'[u] # Absent /\ owner_users'[u].owner = o
        /\ owner_users[u] = Absent
        /\ \A v \in OwnerUsers \ {u} : owner_users'[v] = owner_users[v]
    BY CommitEffect
  <1>2. /\ Pending(c) /\ ~Pending(c)' /\ requests'[c].owner = o /\ requests'[c].user = u
        /\ \A d \in Conns \ {c} : requests'[d] = requests[d]
    BY CommitRequests
  <1> HIDE DEF o, u
  <1>3. \A d \in Conns \ {c} : /\ Pending(d)' <=> Pending(d)
                               /\ Registering(d, "committed")' <=> Registering(d, "committed")
    BY <1>2 DEF Pending, Registering
  <1>4. \A d \in Conns : \A step : Registering(d, step) =>
           requests[d].owner \in Owners /\ requests[d].user \in OwnerUsers
    BY RequestTypes DEF AccountsInv
  <1>5. ASSUME NEW d \in Conns, Pending(d)'
        PROVE  /\ owners'[requests'[d].owner] = Absent /\ owner_users'[requests'[d].user] = Absent
               /\ \A p \in Owners : owners'[p] # requests'[d].email
    <2>1. d # c /\ requests'[d] = requests[d] /\ Pending(d)
      BY <1>2, <1>3, <1>5
    <2>2. requests[d].owner # o /\ requests[d].user # u /\ requests[d].email # requests[c].email
      BY <1>2, <2>1 DEF AccountsInv, RegistrationsApart, o, u
    <2>3. requests[d].owner \in Owners /\ requests[d].user \in OwnerUsers
      BY <1>4, <2>1 DEF Pending
    <2>4. QED
      BY <1>1, <2>1, <2>2, <2>3 DEF AccountsInv, RegistrationsApart
  <1>6. ASSUME NEW d \in Conns, NEW e \in Conns, Pending(d)', Pending(e)', d # e
        PROVE  /\ requests'[d].owner # requests'[e].owner /\ requests'[d].user # requests'[e].user
               /\ requests'[d].email # requests'[e].email
    BY <1>2, <1>3, <1>6 DEF AccountsInv, RegistrationsApart
  <1>7. ASSUME NEW d \in Conns, Registering(d, "committed")'
        PROVE  /\ owner_users'[requests'[d].user] # Absent
               /\ owner_users'[requests'[d].user].owner = requests'[d].owner
    <2>1. CASE d = c
      BY <1>1, <1>2, <2>1
    <2>2. CASE d # c
      <3>1. requests'[d] = requests[d] /\ Registering(d, "committed")
        BY <1>2, <1>3, <1>7, <2>2
      <3>2. QED
        BY <1>1, <1>4, <3>1 DEF AccountsInv, RegistrationsApart
    <2>3. QED
      BY <2>1, <2>2
  <1>8. QED
    BY <1>5, <1>6, <1>7 DEF RegistrationsApart

\* A step that leaves the owners' tables alone and no registration changed but, perhaps,
\* given up.
LEMMA OthersKeepInv ==
    ASSUME AccountsInv, UNCHANGED <<owners, owner_users>>,
           \A d \in Conns : requests'[d] = requests[d] \/ (\A step : ~Registering(d, step)')
    PROVE  EveryOwnerHasOneLogin' /\ RegistrationsApart'
  <1>1. EveryOwnerHasOneLogin'
    BY DEF AccountsInv, EveryOwnerHasOneLogin
  <1>2. \A d \in Conns : Pending(d)' => Pending(d) /\ requests'[d] = requests[d]
    BY DEF Pending, Registering
  <1>3. \A d \in Conns : Registering(d, "committed")' =>
           Registering(d, "committed") /\ requests'[d] = requests[d]
    BY DEF Registering
  <1>4. QED
    BY <1>1, <1>2, <1>3 DEF AccountsInv, RegistrationsApart

LEMMA CreateKeepsInv ==
    ASSUME AccountsInv, NEW c \in Conns, NEW o \in Owners, NEW u \in OwnerUsers,
           NEW e \in Emails, NEW p \in Passwords, CreateOwner(c, o, u, e, p)
    PROVE  EveryOwnerHasOneLogin' /\ RegistrationsApart'
  <1>1. /\ UNCHANGED <<owners, owner_users>> /\ requests[c] = Absent
        /\ owners[o] = Absent /\ owner_users[u] = Absent /\ \A q \in Owners : owners[q] # e
        /\ \A d \in Conns : Pending(d) =>
              requests[d].email # e /\ requests[d].owner # o /\ requests[d].user # u
    BY DEF CreateOwner, tables, Pending
  <1>2. /\ requests'[c].owner = o /\ requests'[c].user = u /\ requests'[c].email = e
        /\ requests'[c].step = "owner"
        /\ \A d \in Conns \ {c} : requests'[d] = requests[d]
    BY DEF CreateOwner, AccountsInv, AccountsTypeOK
  <1>3. \A d \in Conns \ {c} : /\ Pending(d)' => Pending(d)
                               /\ Registering(d, "committed")' => Registering(d, "committed")
    BY <1>2 DEF Pending, Registering
  <1>4. ~Registering(c, "committed")'
    BY <1>2 DEF Registering
  <1>5. EveryOwnerHasOneLogin'
    BY <1>1 DEF AccountsInv, EveryOwnerHasOneLogin
  <1>6. QED
    BY <1>1, <1>2, <1>3, <1>4, <1>5 DEF AccountsInv, RegistrationsApart

LEMMA InsertKeepsInv ==
    ASSUME AccountsInv, NEW c \in Conns, CreateOwnerUser(c)
    PROVE  EveryOwnerHasOneLogin' /\ RegistrationsApart'
  <1>1. /\ UNCHANGED <<owners, owner_users>> /\ Pending(c) /\ requests[c] \in Registration
        /\ requests' = [requests EXCEPT ![c].step = "user"]
    BY RequestTypes DEF CreateOwnerUser, AccountsInv, tables, Pending
  <1>2. /\ requests'[c].owner = requests[c].owner /\ requests'[c].user = requests[c].user
        /\ requests'[c].email = requests[c].email /\ requests'[c].step = "user"
        /\ \A d \in Conns \ {c} : requests'[d] = requests[d]
    BY <1>1 DEF AccountsInv, AccountsTypeOK, Registration
  <1>3. /\ \A d \in Conns : Pending(d)' => Pending(d)
        /\ \A d \in Conns : Registering(d, "committed")' =>
              Registering(d, "committed") /\ requests'[d] = requests[d]
    BY <1>1, <1>2 DEF Pending, Registering
  <1>4. \A d \in Conns : /\ requests'[d].owner = requests[d].owner
                         /\ requests'[d].user = requests[d].user
                         /\ requests'[d].email = requests[d].email
    BY <1>2
  <1>5. EveryOwnerHasOneLogin'
    BY <1>1 DEF AccountsInv, EveryOwnerHasOneLogin
  <1>6. QED
    BY <1>1, <1>3, <1>4, <1>5 DEF AccountsInv, RegistrationsApart

LEMMA InvStep == ASSUME AccountsInv, [Next]_vars PROVE AccountsInv'
  <1>1. AccountsTypeOK'
    BY StepTypes DEF AccountsInv
  <1>2. ASSUME NEW c \in Conns, Register(c) \/ AnswerTenantLogin(c) \/ Crash(c)
        PROVE  EveryOwnerHasOneLogin' /\ RegistrationsApart'
    <2>1. ASSUME AnswerRegistration(c) \/ AnswerTenantLogin(c) \/ Crash(c)
          PROVE  /\ UNCHANGED <<owners, owner_users>>
                 /\ requests' = [requests EXCEPT ![c] = Absent]
      BY <2>1 DEF AnswerRegistration, AnswerTenantLogin, Crash, tables
    <2>2. ASSUME AnswerRegistration(c) \/ AnswerTenantLogin(c) \/ Crash(c)
          PROVE  EveryOwnerHasOneLogin' /\ RegistrationsApart'
      <3>1. \A d \in Conns : requests'[d] = requests[d] \/ requests'[d] = Absent
        BY <2>1, <2>2 DEF AccountsInv, AccountsTypeOK
      <3>2. QED
        BY <2>1, <2>2, <3>1, OthersKeepInv DEF Registering
    <2>3. QED
      BY <1>2, <2>2, CreateKeepsInv, InsertKeepsInv, CommitKeepsLogins, CommitKeepsApart
         DEF Register
  <1>3. ASSUME NEW c \in Conns, NEW e \in Emails, NEW p \in Passwords, CheckTenantLogin(c, e, p)
        PROVE  EveryOwnerHasOneLogin' /\ RegistrationsApart'
    <2>1. \A d \in Conns : requests'[d] = requests[d] \/ requests'[d].kind = "login"
      BY <1>3 DEF CheckTenantLogin, AccountsInv, AccountsTypeOK
    <2>2. UNCHANGED <<owners, owner_users>>
      BY <1>3 DEF CheckTenantLogin, tables
    <2>3. QED
      BY <2>1, <2>2, OthersKeepInv DEF Registering
  <1>4. UNCHANGED <<owners, owner_users, requests>> => EveryOwnerHasOneLogin' /\ RegistrationsApart'
    BY OthersKeepInv
  <1>5. CASE LogIn
    <2>1. ASSUME NEW e \in Emails, NEW p \in Passwords, LoginOwner(e, p)
          PROVE  UNCHANGED <<owners, owner_users, requests>>
      BY <2>1 DEF LoginOwner, tables
    <2>2. \/ \E e \in Emails, p \in Passwords : LoginOwner(e, p)
          \/ \E c \in Conns, e \in Emails, p \in Passwords : CheckTenantLogin(c, e, p)
      BY <1>5 DEF LogIn
    <2>3. QED
      BY <1>1, <1>3, <1>4, <2>1, <2>2 DEF AccountsInv
  <1>6. CASE Refresh \/ ManageTenants \/ Tick \/ UNCHANGED vars
    <2>1. ASSUME Refresh PROVE UNCHANGED <<owners, owner_users, requests>>
      BY <2>1 DEF Refresh, RefreshOwner, RefreshTenant, tables
    <2>2. ASSUME ManageTenants PROVE UNCHANGED <<owners, owner_users, requests>>
      BY <2>2 DEF ManageTenants, CreateTenant, UpdateTenant, DeleteTenant
    <2>3. ASSUME Tick \/ UNCHANGED vars PROVE UNCHANGED <<owners, owner_users, requests>>
      BY <2>3 DEF Tick, vars, tables
    <2>4. UNCHANGED <<owners, owner_users, requests>>
      BY <1>6, <2>1, <2>2, <2>3
    <2>5. QED
      BY <1>1, <1>4, <2>4 DEF AccountsInv
  <1>7. QED
    BY <1>1, <1>2, <1>5, <1>6 DEF Next, AccountsInv

THEOREM AccountsInvariant == Spec => []AccountsInv
  <1>1. Init => AccountsInv
    BY DEF Init, AccountsInv, AccountsTypeOK, EveryOwnerHasOneLogin, RegistrationsApart,
           Pending, Registering
  <1>2. QED
    BY <1>1, InvStep, PTL DEF Spec

\* Registration is all or nothing and e-mails of owners are never shared, whatever crashes
\* and however many registrations race.
THEOREM OwnersHaveOneLogin == Spec => []EveryOwnerHasOneLogin
  BY AccountsInvariant, PTL DEF AccountsInv

\* A login by e-mail finds at most one live tenant: what the unique index keeps.
EmailsApart ==
    \A s, t \in Tenants :
       /\ tenants[s] # Absent /\ ~tenants[s].deleted /\ tenants[s].email # Absent
       /\ tenants[t] # Absent /\ ~tenants[t].deleted /\ tenants[t].email # Absent
       /\ Lower[tenants[s].email] = Lower[tenants[t].email]
       => s = t

\* The row of a tenant that the owner changed.
LEMMA UpdateEffect ==
    ASSUME AccountsTypeOK, NEW tk \in tokens, NEW t \in Tenants, NEW e \in Emails \cup {Absent},
           NEW p \in Passwords \cup {Absent}, UpdateTenant(tk, t, e, p)
    PROVE  /\ tenants[t] # Absent /\ ~tenants[t].deleted /\ tenants'[t] # Absent
           /\ tenants'[t].owner = tenants[t].owner /\ tenants'[t].deleted = tenants[t].deleted
           /\ tenants'[t].email = (IF e = Absent THEN tenants[t].email ELSE e)
           /\ tenants'[t].password = (IF p = Absent THEN tenants[t].password ELSE p)
           /\ \A s \in Tenants \ {t} : tenants'[s] = tenants[s]
  <1> DEFINE email    == IF e = Absent THEN tenants[t].email ELSE e
             password == IF p = Absent THEN tenants[t].password ELSE p
  <1>1. tenants[t] \in Tenant /\ tenants[t] # Absent /\ ~tenants[t].deleted
    BY RowTypes DEF UpdateTenant, OwnTenant
  <1>2. email \in Emails \cup {Absent} /\ password \in Passwords \cup {Absent}
    BY <1>1 DEF Tenant
  <1>3. tenants' = [tenants EXCEPT ![t] = [@ EXCEPT !.email = email, !.password = password]]
    BY <1>1 DEF UpdateTenant, AccountsTypeOK, Tenant
  <1> DEFINE row == [tenants[t] EXCEPT !.email = email, !.password = password]
  <1> HIDE DEF email, password
  <1>4. /\ row \in Tenant /\ row.owner = tenants[t].owner /\ row.deleted = tenants[t].deleted
        /\ row.email = email /\ row.password = password
    BY <1>1, <1>2 DEF Tenant
  <1>5. tenants'[t] = row /\ \A s \in Tenants \ {t} : tenants'[s] = tenants[s]
    BY <1>3 DEF AccountsTypeOK
  <1> HIDE DEF row
  <1>6. row # Absent
    BY <1>4, NoRowAssumption
  <1>7. QED
    BY <1>1, <1>4, <1>5, <1>6 DEF email, password

LEMMA CreateEffect ==
    ASSUME AccountsTypeOK, NEW tk \in tokens, NEW t \in Tenants, NEW e \in Emails \cup {Absent},
           NEW p \in Passwords \cup {Absent}, CreateTenant(tk, t, e, p)
    PROVE  /\ tenants[t] = Absent /\ tenants'[t] # Absent
           /\ tenants'[t].owner = tk.owner /\ tenants'[t].deleted = FALSE
           /\ tenants'[t].email = e /\ tenants'[t].password = p
           /\ \A s \in Tenants \ {t} : tenants'[s] = tenants[s]
  <1> DEFINE row == [owner |-> tk.owner, email |-> e, password |-> p, deleted |-> FALSE]
  <1>1. row \in Tenant
    BY RowTypes DEF Token, Tenant
  <1>2. row # Absent
    BY <1>1, NoRowAssumption
  <1>3. tenants[t] = Absent /\ tenants' = [tenants EXCEPT ![t] = row]
    BY DEF CreateTenant
  <1>4. QED
    BY <1>2, <1>3 DEF AccountsTypeOK

LEMMA DeleteEffect ==
    ASSUME AccountsTypeOK, NEW tk \in tokens, NEW t \in Tenants, DeleteTenant(tk, t)
    PROVE  /\ tenants[t] # Absent /\ tenants'[t] # Absent /\ tenants'[t].deleted = TRUE
           /\ tenants'[t].owner = tenants[t].owner /\ tenants'[t].email = tenants[t].email
           /\ tenants'[t].password = tenants[t].password
           /\ \A s \in Tenants \ {t} : tenants'[s] = tenants[s]
  <1> DEFINE row == [tenants[t] EXCEPT !.deleted = TRUE]
  <1>1. tenants[t] \in Tenant /\ tenants[t] # Absent
    BY RowTypes DEF DeleteTenant, OwnTenant
  <1>2. /\ row \in Tenant /\ row.owner = tenants[t].owner /\ row.email = tenants[t].email
        /\ row.password = tenants[t].password /\ row.deleted = TRUE
    BY <1>1 DEF Tenant
  <1>3. tenants'[t] = row /\ \A s \in Tenants \ {t} : tenants'[s] = tenants[s]
    BY DEF DeleteTenant, AccountsTypeOK
  <1> HIDE DEF row
  <1>4. row # Absent
    BY <1>2, NoRowAssumption
  <1>5. QED
    BY <1>1, <1>2, <1>3, <1>4

LEMMA TenantsUntouched ==
    ASSUME [Next]_vars, ~ManageTenants
    PROVE  UNCHANGED tenants
  <1>1. ASSUME NEW c \in Conns, Register(c) \/ AnswerTenantLogin(c) \/ Crash(c)
        PROVE  UNCHANGED tenants
    BY <1>1 DEF Register, CreateOwner, CreateOwnerUser, CommitRegistration, AnswerRegistration,
                AnswerTenantLogin, Crash, tables
  <1>2. ASSUME LogIn PROVE UNCHANGED tenants
    BY <1>2 DEF LogIn, LoginOwner, CheckTenantLogin, tables
  <1>3. ASSUME Refresh \/ Tick \/ UNCHANGED vars PROVE UNCHANGED tenants
    BY <1>3 DEF Refresh, RefreshOwner, RefreshTenant, Tick, vars, tables
  <1>4. QED
    BY <1>1, <1>2, <1>3 DEF Next

\* One tenant's row changed, so that its e-mail is free of the others' or is given up.
LEMMA OneEmailChanged ==
    ASSUME EmailsApart, NEW t \in Tenants,
           \A s \in Tenants \ {t} : tenants'[s] = tenants[s],
           \/ tenants'[t].email = Absent \/ tenants'[t].deleted
           \/ \A s \in Tenants \ {t} :
                 tenants[s] # Absent /\ ~tenants[s].deleted /\ tenants[s].email # Absent
                 => Lower[tenants[s].email] # Lower[tenants'[t].email]
    PROVE  EmailsApart'
  BY DEF EmailsApart

LEMMA EmailsStep == ASSUME AccountsTypeOK, EmailsApart, [Next]_vars PROVE EmailsApart'
  <1>1. ASSUME NEW tk \in tokens, NEW t \in Tenants, NEW e \in Emails \cup {Absent},
               NEW p \in Passwords \cup {Absent}, CreateTenant(tk, t, e, p)
        PROVE  EmailsApart'
    <2>1. tenants'[t].email = e /\ \A s \in Tenants \ {t} : tenants'[s] = tenants[s]
      BY <1>1, CreateEffect
    <2>2. e # Absent => EmailFree(t, e)
      BY <1>1 DEF CreateTenant
    <2>3. QED
      BY <2>1, <2>2, OneEmailChanged DEF EmailFree
  <1>2. ASSUME NEW tk \in tokens, NEW t \in Tenants, NEW e \in Emails \cup {Absent},
               NEW p \in Passwords \cup {Absent}, UpdateTenant(tk, t, e, p)
        PROVE  EmailsApart'
    <2>1. /\ tenants[t] # Absent /\ ~tenants[t].deleted
          /\ tenants'[t].email = (IF e = Absent THEN tenants[t].email ELSE e)
          /\ \A s \in Tenants \ {t} : tenants'[s] = tenants[s]
      BY <1>2, UpdateEffect
    <2>2. e # Absent => EmailFree(t, e)
      BY <1>2 DEF UpdateTenant
    <2>3. CASE e # Absent
      BY <2>1, <2>2, <2>3, OneEmailChanged DEF EmailFree
    <2>4. CASE e = Absent
      <3>1. tenants'[t].email = tenants[t].email
        BY <2>1, <2>4
      <3>2. tenants'[t].email # Absent =>
              \A s \in Tenants \ {t} :
                 tenants[s] # Absent /\ ~tenants[s].deleted /\ tenants[s].email # Absent
                 => Lower[tenants[s].email] # Lower[tenants'[t].email]
        BY <2>1, <3>1 DEF EmailsApart
      <3>3. QED
        BY <2>1, <3>2, OneEmailChanged
    <2>5. QED
      BY <2>3, <2>4
  <1>3. ASSUME NEW tk \in tokens, NEW t \in Tenants, DeleteTenant(tk, t) PROVE EmailsApart'
    <2>1. tenants'[t].deleted = TRUE /\ \A s \in Tenants \ {t} : tenants'[s] = tenants[s]
      BY <1>3, DeleteEffect
    <2>2. QED
      BY <2>1, OneEmailChanged
  <1>4. CASE ManageTenants
    BY <1>1, <1>2, <1>3, <1>4 DEF ManageTenants
  <1>5. CASE ~ManageTenants
    BY <1>5, TenantsUntouched DEF EmailsApart
  <1>6. QED
    BY <1>4, <1>5

\* A login user has its owner's e-mail.
LEMMA UserHasOwnersEmail ==
    ASSUME AccountsInv, NEW u \in OwnerUsers, owner_users[u] # Absent
    PROVE  /\ owner_users[u].owner \in Owners
           /\ owners[owner_users[u].owner] = owner_users[u].email
           /\ owners[owner_users[u].owner] # Absent
           /\ \A v \in OwnerUsers \ {u} : owner_users[v] # Absent =>
                 owner_users[v].owner # owner_users[u].owner
  <1> DEFINE o == owner_users[u].owner
  <1>1. o \in Owners /\ owners[o] # Absent
    BY RowTypes DEF AccountsInv, OwnerUser, EveryOwnerHasOneLogin
  <1>2. PICK w \in OwnerUsers :
           /\ owner_users[w] # Absent
           /\ owner_users[w].owner = o /\ owner_users[w].email = owners[o]
           /\ \A v \in OwnerUsers \ {w} : owner_users[v] # Absent => owner_users[v].owner # o
    BY <1>1 DEF AccountsInv, EveryOwnerHasOneLogin
  <1>3. w = u
    BY <1>2
  <1>4. QED
    BY <1>1, <1>2, <1>3

\* A login by e-mail names one account: the unique index, the exact comparison at login and
\* soft deletion agree.
THEOREM LoginsFindOneAccount == Spec => []LoginFindsOneAccount
  <1>1. Init => EmailsApart
    BY DEF Init, EmailsApart
  <1>2. ASSUME AccountsInv, EmailsApart PROVE LoginFindsOneAccount
    <2>1. ASSUME NEW email \in Emails, NEW s \in Tenants, NEW t \in Tenants,
                 ByEmail(s, email), ByEmail(t, email)
          PROVE  s = t
      BY <1>2, <2>1, NoRowAssumption DEF ByEmail, EmailsApart
    <2>2. ASSUME NEW u \in OwnerUsers, NEW v \in OwnerUsers,
                 owner_users[u] # Absent, owner_users[v] # Absent,
                 owner_users[u].email = owner_users[v].email
          PROVE  u = v
      <3>1. owner_users[u].owner = owner_users[v].owner
        BY <1>2, <2>2, UserHasOwnersEmail DEF AccountsInv, EveryOwnerHasOneLogin
      <3>2. QED
        BY <1>2, <2>2, <3>1, UserHasOwnersEmail
    <2>3. QED
      BY <2>1, <2>2 DEF LoginFindsOneAccount
  <1>3. AccountsInv => AccountsTypeOK
    BY DEF AccountsInv
  <1>4. QED
    BY <1>1, <1>2, <1>3, EmailsStep, AccountsInvariant, PTL DEF Spec

-----------------------------------------------------------------------------
(* Tokens *)

UserOf(u, o) ==
    /\ u \in OwnerUsers /\ owner_users[u] # Absent
    /\ owner_users[u].owner = o /\ owners[o] # Absent

\* A tenant of the owner that has been given an e-mail and a password, perhaps deleted since.
PortalTenantOf(t, o) ==
    /\ t \in Tenants /\ tenants[t] # Absent /\ tenants[t].owner = o /\ owners[o] # Absent
    /\ tenants[t].email # Absent /\ tenants[t].password # Absent

\* A token is of one kind, and names an account whichever guard it is for; so does a login
\* that has been checked.  A tenant's owner has registered.
TokensNameAccounts ==
    /\ \A tk \in tokens :
          /\ tk.owner_user # Absent => UserOf(tk.owner_user, tk.owner) /\ tk.tenant = Absent
          /\ tk.tenant # Absent => PortalTenantOf(tk.tenant, tk.owner)
    /\ \A c \in Conns : LoggingIn(c) => PortalTenantOf(requests[c].tenant, requests[c].owner)
    /\ \A t \in Tenants : tenants[t] # Absent => owners[tenants[t].owner] # Absent

SessionsInv == AccountsInv /\ TokensNameAccounts

\* Accounts stay: owners and their users as they are, tenants with their owner and access.
LEMMA OwnersKept ==
    ASSUME AccountsInv, [Next]_vars
    PROVE  /\ \A o \in Owners : owners[o] # Absent => owners'[o] = owners[o]
           /\ \A u \in OwnerUsers : owner_users[u] # Absent => owner_users'[u] = owner_users[u]
  <1>1. CASE \E c \in Conns : CommitRegistration(c)
    BY <1>1, CommitEffect
  <1>2. CASE ~\E c \in Conns : CommitRegistration(c)
    <2>1. ASSUME NEW c \in Conns, Register(c) \/ AnswerTenantLogin(c) \/ Crash(c)
          PROVE  UNCHANGED <<owners, owner_users>>
      BY <1>2, <2>1 DEF Register, CreateOwner, CreateOwnerUser, AnswerRegistration,
                        AnswerTenantLogin, Crash, tables
    <2>2. ASSUME LogIn PROVE UNCHANGED <<owners, owner_users>>
      BY <2>2 DEF LogIn, LoginOwner, CheckTenantLogin, tables
    <2>3. ASSUME Refresh PROVE UNCHANGED <<owners, owner_users>>
      BY <2>3 DEF Refresh, RefreshOwner, RefreshTenant, tables
    <2>4. ASSUME ManageTenants PROVE UNCHANGED <<owners, owner_users>>
      BY <2>4 DEF ManageTenants, CreateTenant, UpdateTenant, DeleteTenant
    <2>5. ASSUME Tick \/ UNCHANGED vars PROVE UNCHANGED <<owners, owner_users>>
      BY <2>5 DEF Tick, vars, tables
    <2>6. QED
      BY <2>1, <2>2, <2>3, <2>4, <2>5 DEF Next
  <1>3. QED
    BY <1>1, <1>2

LEMMA TenantsKept ==
    ASSUME AccountsInv, [Next]_vars
    PROVE  \A t \in Tenants : tenants[t] # Absent =>
             /\ tenants'[t] # Absent /\ tenants'[t].owner = tenants[t].owner
             /\ tenants[t].email # Absent => tenants'[t].email # Absent
             /\ tenants[t].password # Absent => tenants'[t].password # Absent
             /\ tenants[t].deleted => tenants'[t].deleted
  <1> SUFFICES ASSUME NEW t \in Tenants, tenants[t] # Absent
               PROVE  /\ tenants'[t] # Absent /\ tenants'[t].owner = tenants[t].owner
                      /\ tenants[t].email # Absent => tenants'[t].email # Absent
                      /\ tenants[t].password # Absent => tenants'[t].password # Absent
                      /\ tenants[t].deleted => tenants'[t].deleted
    OBVIOUS
  <1>0. AccountsTypeOK
    BY DEF AccountsInv
  <1>1. CASE UNCHANGED tenants
    BY <1>1
  <1>2. CASE ManageTenants
    <2>1. PICK tk \in tokens, s \in Tenants :
             \/ \E e \in Emails \cup {Absent}, p \in Passwords \cup {Absent} :
                   CreateTenant(tk, s, e, p) \/ UpdateTenant(tk, s, e, p)
             \/ DeleteTenant(tk, s)
      BY <1>2 DEF ManageTenants
    <2>2. CASE \E e \in Emails \cup {Absent}, p \in Passwords \cup {Absent} : CreateTenant(tk, s, e, p)
      <3>1. tenants[s] = Absent /\ \A x \in Tenants \ {s} : tenants'[x] = tenants[x]
        BY <1>0, <2>2, CreateEffect
      <3>2. QED
        BY <3>1
    <2>3. CASE \E e \in Emails \cup {Absent}, p \in Passwords \cup {Absent} : UpdateTenant(tk, s, e, p)
      <3>1. PICK e \in Emails \cup {Absent}, p \in Passwords \cup {Absent} : UpdateTenant(tk, s, e, p)
        BY <2>3
      <3>2. /\ tenants'[s] # Absent /\ tenants'[s].owner = tenants[s].owner
            /\ ~tenants[s].deleted
            /\ tenants'[s].email = (IF e = Absent THEN tenants[s].email ELSE e)
            /\ tenants'[s].password = (IF p = Absent THEN tenants[s].password ELSE p)
            /\ \A x \in Tenants \ {s} : tenants'[x] = tenants[x]
        BY <1>0, <3>1, UpdateEffect
      <3>3. CASE s = t
        BY <3>2, <3>3
      <3>4. CASE s # t
        BY <3>2, <3>4
      <3>5. QED
        BY <3>3, <3>4
    <2>4. CASE DeleteTenant(tk, s)
      <3>1. /\ tenants'[s] # Absent /\ tenants'[s].owner = tenants[s].owner
            /\ tenants'[s].email = tenants[s].email /\ tenants'[s].password = tenants[s].password
            /\ tenants'[s].deleted = TRUE
            /\ \A x \in Tenants \ {s} : tenants'[x] = tenants[x]
        BY <1>0, <2>4, DeleteEffect
      <3>2. CASE s = t
        BY <3>1, <3>2
      <3>3. CASE s # t
        BY <3>1, <3>3
      <3>4. QED
        BY <3>2, <3>3
    <2>5. QED
      BY <2>1, <2>2, <2>3, <2>4
  <1>3. QED
    BY <1>1, <1>2, TenantsUntouched

LEMMA AccountsStay ==
    ASSUME AccountsInv, [Next]_vars
    PROVE  /\ \A u, o : UserOf(u, o) => UserOf(u, o)'
           /\ \A t, o : PortalTenantOf(t, o) => PortalTenantOf(t, o)'
  <1>1. ASSUME NEW u, NEW o, UserOf(u, o) PROVE UserOf(u, o)'
    <2>1. o \in Owners
      BY <1>1, UserHasOwnersEmail DEF UserOf
    <2>2. QED
      BY <1>1, <2>1, OwnersKept DEF UserOf
  <1>2. ASSUME NEW t, NEW o, PortalTenantOf(t, o) PROVE PortalTenantOf(t, o)'
    <2>1. o \in Owners
      BY <1>2, RowTypes DEF AccountsInv, PortalTenantOf, Tenant
    <2>2. QED
      BY <1>2, <2>1, OwnersKept, TenantsKept DEF PortalTenantOf
  <1>3. QED
    BY <1>1, <1>2

\* The tokens a step issues are an owner user's or a tenant's, never both.
OwnerToken(tk, u, o)  == tk.owner_user = u /\ tk.tenant = Absent /\ tk.owner = o
TenantToken(tk, t, o) == tk.owner_user = Absent /\ tk.tenant = t /\ tk.owner = o

LEMMA IssuedNames ==
    /\ \A u, o : \A tk \in OwnerTokens(u, o) : OwnerToken(tk, u, o)
    /\ \A t, o : \A tk \in TenantTokens(t, o) : TenantToken(tk, t, o)
  BY DEF OwnerTokens, TenantTokens, OwnerToken, TenantToken

\* For whom a step may sign a token.
Signed(tk) ==
    \/ \E c \in Conns : Registering(c, "committed")
                        /\ OwnerToken(tk, requests[c].user, requests[c].owner)
    \/ \E u \in OwnerUsers : owner_users[u] # Absent /\ OwnerToken(tk, u, owner_users[u].owner)
    \/ \E old \in tokens : old.owner_user # Absent /\ OwnerToken(tk, old.owner_user, old.owner)
    \/ \E c \in Conns : LoggingIn(c) /\ TenantToken(tk, requests[c].tenant, requests[c].owner)
    \/ \E old \in tokens : old.tenant # Absent /\ TenantToken(tk, old.tenant, old.owner)

LEMMA IssuedBy ==
    ASSUME [Next]_vars, NEW tk \in tokens', tk \notin tokens
    PROVE  Signed(tk)
  <1>1. ASSUME NEW c \in Conns, AnswerRegistration(c) PROVE Signed(tk)
    <2>1. tk \in OwnerTokens(requests[c].user, requests[c].owner) /\ Registering(c, "committed")
      BY <1>1 DEF AnswerRegistration
    <2>2. OwnerToken(tk, requests[c].user, requests[c].owner)
      BY <2>1, IssuedNames
    <2>3. QED
      BY <2>1, <2>2 DEF Signed
  <1>2. ASSUME NEW e \in Emails, NEW p \in Passwords, LoginOwner(e, p) PROVE Signed(tk)
    <2>1. PICK u \in OwnerUsers : owner_users[u] # Absent /\ tk \in OwnerTokens(u, owner_users[u].owner)
      BY <1>2 DEF LoginOwner
    <2>2. OwnerToken(tk, u, owner_users[u].owner)
      BY <2>1, IssuedNames
    <2>3. QED
      BY <2>1, <2>2 DEF Signed
  <1>3. ASSUME NEW old \in tokens, RefreshOwner(old) PROVE Signed(tk)
    <2>1. old.owner_user # Absent /\ tk \in OwnerTokens(old.owner_user, old.owner)
      BY <1>3 DEF RefreshOwner, ParseOwner
    <2>2. OwnerToken(tk, old.owner_user, old.owner)
      BY <2>1, IssuedNames
    <2>3. QED
      BY <2>1, <2>2 DEF Signed
  <1>4. ASSUME NEW c \in Conns, AnswerTenantLogin(c) PROVE Signed(tk)
    <2>1. tk \in TenantTokens(requests[c].tenant, requests[c].owner) /\ LoggingIn(c)
      BY <1>4 DEF AnswerTenantLogin, LoggingIn
    <2>2. TenantToken(tk, requests[c].tenant, requests[c].owner)
      BY <2>1, IssuedNames
    <2>3. QED
      BY <2>1, <2>2 DEF Signed
  <1>5. ASSUME NEW old \in tokens, RefreshTenant(old) PROVE Signed(tk)
    <2>1. old.tenant # Absent /\ tk \in TenantTokens(old.tenant, old.owner)
      BY <1>5 DEF RefreshTenant, ParseTenant
    <2>2. TenantToken(tk, old.tenant, old.owner)
      BY <2>1, IssuedNames
    <2>3. QED
      BY <2>1, <2>2 DEF Signed
  <1>6. ASSUME NEW c \in Conns, Register(c) \/ Crash(c) PROVE Signed(tk)
    BY <1>1, <1>6 DEF Register, CreateOwner, CreateOwnerUser, CommitRegistration, Crash
  <1>7. ASSUME LogIn PROVE Signed(tk)
    BY <1>2, <1>7 DEF LogIn, CheckTenantLogin
  <1>8. ASSUME ManageTenants PROVE Signed(tk)
    BY <1>8 DEF ManageTenants, CreateTenant, UpdateTenant, DeleteTenant
  <1>9. ASSUME Tick \/ UNCHANGED vars PROVE Signed(tk)
    BY <1>9 DEF Tick, vars
  <1>10. QED
    BY <1>3, <1>4, <1>5, <1>6, <1>7, <1>8, <1>9 DEF Next, Refresh

\* A login that is about to be answered was so before, or its tenant was found by e-mail.
LEMMA LoginsBy ==
    ASSUME AccountsTypeOK, [Next]_vars, NEW c \in Conns, LoggingIn(c)'
    PROVE  \/ LoggingIn(c) /\ requests'[c] = requests[c]
           \/ \E t \in Tenants, email \in Emails, password \in Passwords :
                 /\ ByEmail(t, email) /\ tenants[t].password = password
                 /\ requests'[c].tenant = t /\ requests'[c].owner = tenants[t].owner
  <1>1. CASE requests'[c] = requests[c]
    BY <1>1 DEF LoggingIn
  <1>2. ASSUME NEW d \in Conns, NEW e \in Emails, NEW p \in Passwords, CheckTenantLogin(d, e, p),
               requests'[c] # requests[c]
        PROVE  \E t \in Tenants, email \in Emails, password \in Passwords :
                 /\ ByEmail(t, email) /\ tenants[t].password = password
                 /\ requests'[c].tenant = t /\ requests'[c].owner = tenants[t].owner
    <2>1. PICK t \in Tenants :
             /\ ByEmail(t, e) /\ tenants[t].password = p
             /\ requests' = [requests EXCEPT ![d] =
                               [kind |-> "login", tenant |-> t, owner |-> tenants[t].owner]]
      BY <1>2 DEF CheckTenantLogin
    <2>2. c = d /\ requests'[c] = [kind |-> "login", tenant |-> t, owner |-> tenants[t].owner]
      BY <1>2, <2>1 DEF AccountsTypeOK
    <2>3. QED
      BY <2>1, <2>2
  <1>3. ASSUME NEW d \in Conns, Register(d) \/ AnswerTenantLogin(d) \/ Crash(d)
        PROVE  requests'[c] = requests[c]
    <2>1. ASSUME AnswerRegistration(d) \/ AnswerTenantLogin(d) \/ Crash(d)
          PROVE  requests'[c] = requests[c]
      BY <2>1 DEF AnswerRegistration, AnswerTenantLogin, Crash, AccountsTypeOK, LoggingIn
    <2>2. ASSUME NEW o \in Owners, NEW u \in OwnerUsers, NEW e \in Emails, NEW p \in Passwords,
                 CreateOwner(d, o, u, e, p)
          PROVE  requests'[c] = requests[c]
      BY <2>2 DEF CreateOwner, AccountsTypeOK, LoggingIn
    <2>3. ASSUME CreateOwnerUser(d) \/ CommitRegistration(d)
          PROVE  requests'[c] = requests[c]
      <3>1. PICK step \in {"user", "committed"} : requests' = [requests EXCEPT ![d].step = step]
        BY <2>3 DEF CreateOwnerUser, CommitRegistration
      <3>2. requests[d] \in Registration
        BY <2>3, RequestTypes DEF CreateOwnerUser, CommitRegistration
      <3>3. [requests[d] EXCEPT !.step = step] \in Registration
        BY <3>2 DEF Registration
      <3>4. c # d
        BY <3>1, <3>3 DEF AccountsTypeOK, LoggingIn, Registration
      <3>5. QED
        BY <3>1, <3>4 DEF AccountsTypeOK
    <2>4. QED
      BY <1>3, <2>1, <2>2, <2>3 DEF Register
  <1>4. ASSUME Refresh \/ ManageTenants \/ Tick \/ UNCHANGED vars PROVE requests'[c] = requests[c]
    <2>1. ASSUME Refresh PROVE UNCHANGED requests
      BY <2>1 DEF Refresh, RefreshOwner, RefreshTenant
    <2>2. ASSUME ManageTenants PROVE UNCHANGED requests
      BY <2>2 DEF ManageTenants, CreateTenant, UpdateTenant, DeleteTenant
    <2>3. ASSUME Tick \/ UNCHANGED vars PROVE UNCHANGED requests
      BY <2>3 DEF Tick, vars
    <2>4. QED
      BY <1>4, <2>1, <2>2, <2>3
  <1>5. ASSUME NEW e \in Emails, NEW p \in Passwords, LoginOwner(e, p)
        PROVE  requests'[c] = requests[c]
    BY <1>5 DEF LoginOwner
  <1>6. CASE LogIn
    BY <1>1, <1>2, <1>5, <1>6 DEF LogIn
  <1>7. QED
    BY <1>1, <1>3, <1>4, <1>6 DEF Next

LEMMA SessionsStep == ASSUME SessionsInv, [Next]_vars PROVE TokensNameAccounts'
  <1>1. AccountsInv /\ AccountsTypeOK /\ TokensNameAccounts
    BY DEF SessionsInv, AccountsInv
  <1>2. ASSUME NEW tk \in tokens', tk \in tokens
        PROVE  /\ tk.owner_user # Absent => UserOf(tk.owner_user, tk.owner)' /\ tk.tenant = Absent
               /\ tk.tenant # Absent => PortalTenantOf(tk.tenant, tk.owner)'
    BY <1>1, <1>2, AccountsStay DEF TokensNameAccounts
  <1>3. ASSUME NEW tk \in tokens', tk \notin tokens
        PROVE  /\ tk.owner_user # Absent => UserOf(tk.owner_user, tk.owner)' /\ tk.tenant = Absent
               /\ tk.tenant # Absent => PortalTenantOf(tk.tenant, tk.owner)'
    <2>1. ASSUME NEW u, NEW o, UserOf(u, o), OwnerToken(tk, u, o)
          PROVE  UserOf(tk.owner_user, tk.owner)' /\ tk.tenant = Absent
      BY <1>1, <2>1, AccountsStay DEF OwnerToken
    <2>2. ASSUME NEW t, NEW o, PortalTenantOf(t, o), TenantToken(tk, t, o)
          PROVE  tk.owner_user = Absent /\ PortalTenantOf(tk.tenant, tk.owner)'
      BY <1>1, <2>2, AccountsStay DEF TenantToken
    <2>3. ASSUME NEW u \in OwnerUsers, owner_users[u] # Absent PROVE UserOf(u, owner_users[u].owner)
      BY <1>1, <2>3, UserHasOwnersEmail DEF UserOf
    <2>4. ASSUME NEW c \in Conns, Registering(c, "committed")
          PROVE  UserOf(requests[c].user, requests[c].owner)
      <3>1. requests[c].user \in OwnerUsers /\ owner_users[requests[c].user] # Absent
            /\ owner_users[requests[c].user].owner = requests[c].owner
        BY <1>1, <2>4, RequestTypes DEF AccountsInv, RegistrationsApart
      <3>2. QED
        BY <2>3, <3>1
    <2>5. Signed(tk)
      BY <1>3, IssuedBy
    <2>6. QED
      BY <1>1, <2>1, <2>2, <2>3, <2>4, <2>5 DEF Signed, TokensNameAccounts
  <1>4. ASSUME NEW c \in Conns, LoggingIn(c)'
        PROVE  PortalTenantOf(requests[c].tenant, requests[c].owner)'
    <2>1. CASE LoggingIn(c) /\ requests'[c] = requests[c]
      BY <1>1, <2>1, AccountsStay DEF TokensNameAccounts
    <2>2. ASSUME NEW t \in Tenants, NEW email \in Emails, NEW password \in Passwords,
                 ByEmail(t, email), tenants[t].password = password,
                 requests'[c].tenant = t, requests'[c].owner = tenants[t].owner
          PROVE  PortalTenantOf(requests[c].tenant, requests[c].owner)'
      <3>1. PICK o : o = tenants[t].owner /\ PortalTenantOf(t, o)
        BY <1>1, <2>2, NoRowAssumption DEF ByEmail, PortalTenantOf, TokensNameAccounts
      <3>2. PortalTenantOf(t, o)'
        BY <1>1, <3>1, AccountsStay
      <3>3. QED
        BY <2>2, <3>1, <3>2
    <2>3. QED
      BY <1>1, <1>4, <2>1, <2>2, LoginsBy
  <1>5. ASSUME NEW t \in Tenants, tenants'[t] # Absent PROVE owners'[tenants'[t].owner] # Absent
    <2>1. CASE tenants[t] # Absent
      <3>1. tenants'[t].owner = tenants[t].owner /\ tenants[t].owner \in Owners
        BY <1>1, <2>1, TenantsKept, RowTypes DEF Tenant
      <3>2. QED
        BY <1>1, <2>1, <3>1, OwnersKept DEF TokensNameAccounts
    <2>2. CASE tenants[t] = Absent
      <3>1. PICK tk \in tokens : RequireOwner(tk) /\ tenants'[t].owner = tk.owner
        <4>1. ManageTenants
          BY <1>5, <2>2, TenantsUntouched
        <4>2. PICK tk \in tokens, s \in Tenants :
                 \/ \E e \in Emails \cup {Absent}, p \in Passwords \cup {Absent} :
                       CreateTenant(tk, s, e, p) \/ UpdateTenant(tk, s, e, p)
                 \/ DeleteTenant(tk, s)
          BY <4>1 DEF ManageTenants
        <4>3. RequireOwner(tk)
          BY <4>2 DEF CreateTenant, UpdateTenant, DeleteTenant
        <4>4. tenants'[t].owner = tk.owner
          BY <1>1, <1>5, <2>2, <4>2, CreateEffect, UpdateEffect, DeleteEffect
        <4>5. QED
          BY <4>3, <4>4
      <3>2. UserOf(tk.owner_user, tk.owner)'
        BY <1>1, <3>1, AccountsStay DEF RequireOwner, ParseOwner, TokensNameAccounts
      <3>3. QED
        BY <3>1, <3>2 DEF UserOf
    <2>3. QED
      BY <2>1, <2>2
  <1>6. QED
    BY <1>2, <1>3, <1>4, <1>5 DEF TokensNameAccounts

THEOREM SessionsInvariant == Spec => []SessionsInv
  <1>1. Init => TokensNameAccounts
    BY DEF Init, TokensNameAccounts, LoggingIn
  <1>2. SessionsInv <=> AccountsInv /\ TokensNameAccounts
    BY DEF SessionsInv
  <1>3. QED
    BY <1>1, <1>2, SessionsStep, AccountsInvariant, PTL DEF Spec

\* The guards of the endpoints are sound: a token that passes names an account of the owner
\* it acts for, and none passes both.
THEOREM GuardsAreSound == Spec => []AcceptedTokenNamesItsAccount
  <1>1. ASSUME SessionsInv PROVE AcceptedTokenNamesItsAccount
    BY <1>1 DEF SessionsInv, TokensNameAccounts, AcceptedTokenNamesItsAccount, RequireOwner,
                RequireTenant, ParseOwner, ParseTenant, UserOf, PortalTenantOf
  <1>2. QED
    BY <1>1, SessionsInvariant, PTL

\* A deleted tenant whose last session has lapsed is out for good.
THEOREM DeletedStaysOut == Spec => DeletedTenantStaysOut
  <1>1. ASSUME SessionsInv, [Next]_vars, NEW t \in Tenants, tenants[t] # Absent,
               tenants[t].deleted, LoggedOut(t)
        PROVE  LoggedOut(t)'
    <2>1. t # Absent
      BY NoRowAssumption
    <2>2. ASSUME NEW tk \in tokens' PROVE tk.tenant # t
      <3>1. CASE tk \in tokens
        BY <1>1, <3>1 DEF LoggedOut
      <3>2. CASE tk \notin tokens
        BY <1>1, <2>1, <3>2, IssuedBy DEF Signed, OwnerToken, TenantToken, LoggedOut, LoggingIn
      <3>3. QED
        BY <3>1, <3>2
    <2>3. ASSUME NEW c \in Conns, LoggingIn(c)' PROVE requests'[c].tenant # t
      <3>1. AccountsTypeOK
        BY <1>1 DEF SessionsInv, AccountsInv
      <3>2. QED
        BY <1>1, <2>3, <3>1, LoginsBy DEF LoggedOut, LoggingIn, ByEmail
    <2>4. QED
      BY <2>2, <2>3 DEF LoggedOut, LoggingIn
  <1>2. SessionsInv /\ [Next]_vars =>
          [\A t \in Tenants :
             tenants[t] # Absent /\ tenants[t].deleted /\ LoggedOut(t) => LoggedOut(t)']_vars
    BY <1>1
  <1>3. QED
    BY <1>2, SessionsInvariant, PTL DEF Spec, DeletedTenantStaysOut
=============================================================================
