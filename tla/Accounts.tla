------------------------------- MODULE Accounts -------------------------------
(***************************************************************************)
(* Owner registration, logins, tokens and the guards of the owner and      *)
(* tenant endpoints, with the part of tenant management that decides who   *)
(* may log in: e-mail, password and soft deletion.                         *)
(*                                                                         *)
(* Registration is one transaction of two inserts; its steps are separate  *)
(* and a crash may fall between any two.  A tenant's login reads the row   *)
(* and, after bcrypt, signs the tokens: two steps.  Owner users have no    *)
(* operation that changes or deletes them, so their login is one.          *)
(*                                                                         *)
(* Signatures are not modelled: a request carries a token that was issued. *)
(***************************************************************************)
EXTENDS Integers

CONSTANTS
    Owners, OwnerUsers, Tenants,  \* identities of rows
    Emails, Passwords,            \* what requests carry
    Lower,                        \* the e-mail in lower case
    Conns,                        \* requests served at a time
    AccessTTL, RefreshTTL,        \* lifetimes of tokens
    MaxNow,                       \* bound: how long the clock runs
    Absent                        \* no row; NULL in a column, "" in a claim

OwnerUser    == [owner : Owners, email : Emails, password : Passwords]
Tenant       == [owner : Owners, email : Emails \cup {Absent},
                 password : Passwords \cup {Absent}, deleted : BOOLEAN]
Registration == [kind : {"register"}, step : {"owner", "user", "committed"}, owner : Owners,
                 user : OwnerUsers, email : Emails, password : Passwords]
TenantLogin  == [kind : {"login"}, tenant : Tenants, owner : Owners]
Token        == [typ : {"access", "refresh"}, owner_user : OwnerUsers \cup {Absent},
                 tenant : Tenants \cup {Absent}, owner : Owners, expires : Int]

ASSUME LowerAssumption == Lower \in [Emails -> Emails]
ASSUME TimesAssumption == AccessTTL \in Nat /\ RefreshTTL \in Nat /\ MaxNow \in Nat
ASSUME NoRowAssumption ==
    /\ Absent \notin OwnerUser \cup Tenant \cup Registration \cup TenantLogin
    /\ Absent \notin Owners \cup OwnerUsers \cup Tenants \cup Emails \cup Passwords

VARIABLES
    owners,      \* table owners: the e-mail of each, unique
    owner_users, \* table owner_users
    tenants,     \* table tenants, the columns of portal access
    requests,    \* registrations and tenant logins in progress
    tokens,      \* the tokens that were issued and have not expired
    now          \* the clock

tables == <<owners, owner_users, tenants>>
vars   == <<tables, requests, tokens, now>>

\* Rows, requests and tokens have the fields that the code gives them.
AccountsTypeOK ==
    /\ owners      \in [Owners -> Emails \cup {Absent}]
    /\ owner_users \in [OwnerUsers -> OwnerUser \cup {Absent}]
    /\ tenants     \in [Tenants -> Tenant \cup {Absent}]
    /\ requests    \in [Conns -> Registration \cup TenantLogin \cup {Absent}]
    /\ tokens      \subseteq Token
    /\ now         \in Nat

Init ==
    /\ owners      = [o \in Owners |-> Absent]
    /\ owner_users = [u \in OwnerUsers |-> Absent]
    /\ tenants     = [t \in Tenants |-> Absent]
    /\ requests    = [c \in Conns |-> Absent]
    /\ tokens      = {}
    /\ now         = 0

-----------------------------------------------------------------------------
(* Tokens *)

TTL == [access |-> AccessTTL, refresh |-> RefreshTTL]

OwnerTokens(u, o) ==
    {[typ |-> typ, owner_user |-> u, tenant |-> Absent, owner |-> o,
      expires |-> now + TTL[typ]] : typ \in {"access", "refresh"}}
TenantTokens(t, o) ==
    {[typ |-> typ, owner_user |-> Absent, tenant |-> t, owner |-> o,
      expires |-> now + TTL[typ]] : typ \in {"access", "refresh"}}

\* A claim that the token does not carry reads as "" and is refused.
ParseOwner(tk, typ) ==
    now < tk.expires /\ tk.typ = typ /\ tk.owner # Absent /\ tk.owner_user # Absent
ParseTenant(tk, typ) ==
    now < tk.expires /\ tk.typ = typ /\ tk.owner # Absent /\ tk.tenant # Absent

RequireOwner(tk)  == ParseOwner(tk, "access")
RequireTenant(tk) == ParseTenant(tk, "access")

-----------------------------------------------------------------------------
(* Registration of an owner *)

Registering(c, step) ==
    requests[c] # Absent /\ requests[c].kind = "register" /\ requests[c].step = step

\* The insert into owners; it waits for another one of the same e-mail that is not
\* committed, and fails on one that is.
CreateOwner(c, o, u, email, password) ==
    /\ requests[c] = Absent
    /\ owners[o] = Absent /\ owner_users[u] = Absent
    /\ \A p \in Owners : owners[p] # email
    /\ \A d \in Conns : Registering(d, "owner") \/ Registering(d, "user") =>
          requests[d].email # email /\ requests[d].owner # o /\ requests[d].user # u
    /\ requests' = [requests EXCEPT ![c] =
                       [kind |-> "register", step |-> "owner", owner |-> o, user |-> u,
                        email |-> email, password |-> password]]
    /\ UNCHANGED <<tables, tokens, now>>

CreateOwnerUser(c) ==
    /\ Registering(c, "owner")
    /\ \A u \in OwnerUsers : owner_users[u] # Absent => owner_users[u].email # requests[c].email
    /\ requests' = [requests EXCEPT ![c].step = "user"]
    /\ UNCHANGED <<tables, tokens, now>>

MutCommitRegistration(c) ==  \* mutant: the first insert is not part of the transaction
    /\ Registering(c, "owner") \/ Registering(c, "user")
    /\ owners' = [owners EXCEPT ![requests[c].owner] = requests[c].email]
    /\ owner_users' = IF Registering(c, "owner") THEN owner_users ELSE
                      [owner_users EXCEPT ![requests[c].user] =
                         [owner |-> requests[c].owner, email |-> requests[c].email,
                          password |-> requests[c].password]]
    /\ requests' = [requests EXCEPT ![c].step = "committed"]
    /\ UNCHANGED <<tenants, tokens, now>>
CommitRegistration(c) ==
    /\ Registering(c, "user")
    /\ owners' = [owners EXCEPT ![requests[c].owner] = requests[c].email]
    /\ owner_users' = [owner_users EXCEPT ![requests[c].user] =
                         [owner |-> requests[c].owner, email |-> requests[c].email,
                          password |-> requests[c].password]]
    /\ requests' = [requests EXCEPT ![c].step = "committed"]
    /\ UNCHANGED <<tenants, tokens, now>>

MutAnswerRegistration(c) ==  \* mutant: signs before the commit
    /\ Registering(c, "user") \/ Registering(c, "committed")
    /\ tokens' = tokens \cup OwnerTokens(requests[c].user, requests[c].owner)
    /\ requests' = [requests EXCEPT ![c] = Absent]
    /\ UNCHANGED <<tables, now>>
AnswerRegistration(c) ==
    /\ Registering(c, "committed")
    /\ tokens' = tokens \cup OwnerTokens(requests[c].user, requests[c].owner)
    /\ requests' = [requests EXCEPT ![c] = Absent]
    /\ UNCHANGED <<tables, now>>

\* The server or its connection is lost, or the signing fails: what is not committed is gone.
Crash(c) ==
    /\ requests[c] # Absent
    /\ requests' = [requests EXCEPT ![c] = Absent]
    /\ UNCHANGED <<tables, tokens, now>>

-----------------------------------------------------------------------------
(* Logins and refreshes.  A login that fails is the absence of a step. *)

LoginOwner(email, password) ==
    \E u \in OwnerUsers :
       /\ owner_users[u] # Absent
       /\ owner_users[u].email = email /\ owner_users[u].password = password
       /\ tokens' = tokens \cup OwnerTokens(u, owner_users[u].owner)
       /\ UNCHANGED <<tables, requests, now>>

MutByEmail(t, email) == tenants[t] # Absent /\ tenants[t].email = email  \* mutant
ByEmail(t, email)    == tenants[t] # Absent /\ tenants[t].email = email /\ ~tenants[t].deleted

\* The lookup by e-mail, exactly as written, and the comparison of the password.
CheckTenantLogin(c, email, password) ==
    /\ requests[c] = Absent
    /\ \E t \in Tenants :
          /\ ByEmail(t, email)
          /\ tenants[t].password = password
          /\ requests' = [requests EXCEPT ![c] =
                             [kind |-> "login", tenant |-> t, owner |-> tenants[t].owner]]
    /\ UNCHANGED <<tables, tokens, now>>

AnswerTenantLogin(c) ==
    /\ requests[c] # Absent /\ requests[c].kind = "login"
    /\ tokens' = tokens \cup TenantTokens(requests[c].tenant, requests[c].owner)
    /\ requests' = [requests EXCEPT ![c] = Absent]
    /\ UNCHANGED <<tables, now>>

\* A refresh copies the claims and looks up nothing.
RefreshOwner(tk) ==
    /\ ParseOwner(tk, "refresh")
    /\ tokens' = tokens \cup OwnerTokens(tk.owner_user, tk.owner)
    /\ UNCHANGED <<tables, requests, now>>
MutRefreshTenant(tk) ==  \* mutant: signs owner tokens, a line copied from RefreshOwner
    /\ ParseTenant(tk, "refresh")
    /\ tokens' = tokens \cup OwnerTokens(tk.tenant, tk.owner)
    /\ UNCHANGED <<tables, requests, now>>
RefreshTenant(tk) ==
    /\ ParseTenant(tk, "refresh")
    /\ tokens' = tokens \cup TenantTokens(tk.tenant, tk.owner)
    /\ UNCHANGED <<tables, requests, now>>

-----------------------------------------------------------------------------
(* Portal access of tenants.  The owner is the token's. *)

MutEmailFree(t, email) ==  \* mutant: unique among the tenants with a password
    \A s \in Tenants \ {t} : tenants[s] # Absent /\ ~tenants[s].deleted /\ tenants[s].email # Absent
        => Lower[tenants[s].email] # Lower[email] \/ tenants[s].password = Absent
\* UNIQUE (lower(email)) WHERE email IS NOT NULL AND deleted_at IS NULL
EmailFree(t, email) ==
    \A s \in Tenants \ {t} : tenants[s] # Absent /\ ~tenants[s].deleted /\ tenants[s].email # Absent
        => Lower[tenants[s].email] # Lower[email]

CreateTenant(tk, t, email, password) ==
    /\ RequireOwner(tk)
    /\ tenants[t] = Absent
    /\ email # Absent => EmailFree(t, email)
    /\ tenants' = [tenants EXCEPT ![t] = [owner |-> tk.owner, email |-> email,
                                          password |-> password, deleted |-> FALSE]]
    /\ UNCHANGED <<owners, owner_users, requests, tokens, now>>

OwnTenant(tk, t) == tenants[t] # Absent /\ tenants[t].owner = tk.owner /\ ~tenants[t].deleted

\* Absent is a column the request leaves out: it can replace both, and clear neither.
UpdateTenant(tk, t, email, password) ==
    /\ RequireOwner(tk)
    /\ OwnTenant(tk, t)
    /\ email # Absent => EmailFree(t, email)
    /\ tenants' = [tenants EXCEPT ![t].email    = IF email = Absent THEN @ ELSE email,
                                  ![t].password = IF password = Absent THEN @ ELSE password]
    /\ UNCHANGED <<owners, owner_users, requests, tokens, now>>

DeleteTenant(tk, t) ==
    /\ RequireOwner(tk)
    /\ OwnTenant(tk, t)
    /\ tenants' = [tenants EXCEPT ![t].deleted = TRUE]
    /\ UNCHANGED <<owners, owner_users, requests, tokens, now>>

\* Time passes; a token that has expired is of no more use to anyone.
Tick ==
    /\ now < MaxNow
    /\ now' = now + 1
    /\ tokens' = {tk \in tokens : now' < tk.expires}
    /\ UNCHANGED <<tables, requests>>

-----------------------------------------------------------------------------

Register(c) ==
    \/ \E o \in Owners, u \in OwnerUsers, e \in Emails, p \in Passwords : CreateOwner(c, o, u, e, p)
    \/ CreateOwnerUser(c) \/ CommitRegistration(c) \/ AnswerRegistration(c)

LogIn ==
    \E e \in Emails, p \in Passwords :
       LoginOwner(e, p) \/ \E c \in Conns : CheckTenantLogin(c, e, p)

Refresh == \E tk \in tokens : RefreshOwner(tk) \/ RefreshTenant(tk)

ManageTenants ==
    \E tk \in tokens, t \in Tenants :
       \/ \E e \in Emails \cup {Absent}, p \in Passwords \cup {Absent} :
             CreateTenant(tk, t, e, p) \/ UpdateTenant(tk, t, e, p)
       \/ DeleteTenant(tk, t)

Next ==
    \/ \E c \in Conns : Register(c) \/ AnswerTenantLogin(c) \/ Crash(c)
    \/ LogIn \/ Refresh \/ ManageTenants \/ Tick

Spec == Init /\ [][Next]_vars

-----------------------------------------------------------------------------
(* Properties *)

\* Registration is all or nothing, under crashes and races for one e-mail: every owner has
\* exactly one login user, with the owner's e-mail, and no two owners share theirs.
EveryOwnerHasOneLogin ==
    /\ \A o \in Owners : owners[o] # Absent =>
          \E u \in OwnerUsers :
             /\ owner_users[u] # Absent
             /\ owner_users[u].owner = o /\ owner_users[u].email = owners[o]
             /\ \A v \in OwnerUsers \ {u} : owner_users[v] # Absent => owner_users[v].owner # o
    /\ \A u \in OwnerUsers : owner_users[u] # Absent => owners[owner_users[u].owner] # Absent
    /\ \A o, p \in Owners : owners[o] # Absent /\ owners[o] = owners[p] => o = p

\* Acceptance criteria of docs/modules/01-auth.md: the owner endpoints act for a login user of
\* the owner in the token, the tenant endpoints for a tenant of the owner in the token who was
\* given a password, and no token passes both guards.  GetOwnerProfile's check that the user
\* belongs to the owner therefore never refuses.
AcceptedTokenNamesItsAccount ==
    \A tk \in tokens :
       /\ RequireOwner(tk) =>
             /\ tk.owner_user \in OwnerUsers /\ owner_users[tk.owner_user] # Absent
             /\ owner_users[tk.owner_user].owner = tk.owner /\ owners[tk.owner] # Absent
             /\ ~RequireTenant(tk)
       /\ RequireTenant(tk) =>
             /\ tk.tenant \in Tenants /\ tenants[tk.tenant] # Absent
             /\ tenants[tk.tenant].owner = tk.owner /\ owners[tk.owner] # Absent
             /\ tenants[tk.tenant].email # Absent /\ tenants[tk.tenant].password # Absent

\* A login by e-mail finds at most one account of each kind, although e-mails are compared
\* exactly at login, without case in the index, and can be taken over from a deleted tenant.
LoginFindsOneAccount ==
    \A email \in Emails :
       /\ \A s, t \in Tenants : ByEmail(s, email) /\ ByEmail(t, email) => s = t
       /\ \A u, v \in OwnerUsers :
             /\ owner_users[u] # Absent /\ owner_users[u].email = email
             /\ owner_users[v] # Absent /\ owner_users[v].email = email
             => u = v

\* No token of the tenant is left, and no login is about to issue one.
LoggedOut(t) ==
    /\ \A tk \in tokens : tk.tenant # t
    /\ \A c \in Conns : requests[c] # Absent /\ requests[c].kind = "login" => requests[c].tenant # t

\* The portal access of a deleted tenant can be prolonged, since a refresh looks up nothing,
\* but it cannot come back: once its last session has lapsed no token of it is ever issued.
DeletedTenantStaysOut ==
    [][\A t \in Tenants :
          tenants[t] # Absent /\ tenants[t].deleted /\ LoggedOut(t) => LoggedOut(t)']_vars
=============================================================================
