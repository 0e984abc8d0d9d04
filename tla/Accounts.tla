------------------------------ MODULE Accounts ------------------------------
(***************************************************************************)
(* Sign-up, sign-in and the tokens that outlive both (services/auth.py,    *)
(* api/deps.py, core/security.py).  A sign-up looks for its e-mail and for *)
(* a free slug and leaves the rest to unique indexes: an INSERT waits for  *)
(* the transaction that has written the same value, and fails when that    *)
(* one commits.                                                            *)
(***************************************************************************)
EXTENDS FiniteSets

CONSTANTS
  Signups,   \* sign-up requests; one that commits names its user and tenant
  Emails,
  Names,     \* slugs of the business names
  Browsers   \* who keep tokens

\* A random ending is nobody's name.
ASSUME SlugsAssumption == Names \intersect Signups = {}

VARIABLES
  up,        \* each sign-up
  rivals,    \* history: sign-ups that ran beside one with their e-mail or name
  disabled,  \* users with is_active unset
  kept       \* the tokens in each browser

accountVars == <<up, rivals, disabled, kept>>

NoToken == [user |-> "none", access |-> "none", refresh |-> "none"]

AccountsInit ==
  /\ up = [s \in Signups |-> [pc |-> "idle", email |-> "none", name |-> "none", slug |-> "none"]]
  /\ rivals = {} /\ disabled = {}
  /\ kept = [b \in Browsers |-> NoToken]

Step(s, pc) == up' = [up EXCEPT ![s].pc = pc]
Running == {s \in Signups : up[s].pc \in {"asking", "asked", "user", "named", "tenant"}}
Committed == {s \in Signups : up[s].pc = "committed"}
HoldsEmail(s, email) == up[s].email = email /\ up[s].pc \in {"user", "named", "tenant"}
HoldsSlug(s, slug) == up[s].slug = slug /\ up[s].pc = "tenant"

----------------------------------------------------------------------------
(* signup                                                                  *)

Ask(s, email, name) ==
  LET beside == {t \in Running : up[t].email = email \/ up[t].name = name} IN
    /\ up[s].pc = "idle"
    /\ up' = [up EXCEPT ![s] = [pc |-> "asking", email |-> email, name |-> name, slug |-> "none"]]
    /\ rivals' = IF beside = {} THEN rivals ELSE rivals \union beside \union {s}
    /\ UNCHANGED <<disabled, kept>>

EmailTaken(s) == \E t \in Committed : up[t].email = up[s].email

LookForEmail(s) ==
  /\ up[s].pc = "asking"
  /\ Step(s, IF EmailTaken(s) THEN "conflict" ELSE "asked")
  /\ UNCHANGED <<rivals, disabled, kept>>

AddUser(s) ==
  /\ up[s].pc = "asked"
  /\ \A t \in Signups \ {s} : ~ HoldsEmail(t, up[s].email)
  /\ Step(s, IF EmailTaken(s) THEN "failed" ELSE "user")
  /\ UNCHANGED <<rivals, disabled, kept>>

\* _unique_slug: a random ending makes it the sign-up's own.
SlugOf(s) == IF \E t \in Committed : up[t].slug = up[s].name THEN s ELSE up[s].name

ChooseSlug(s) ==
  /\ up[s].pc = "user"
  /\ up' = [up EXCEPT ![s].pc = "named", ![s].slug = SlugOf(s)]
  /\ UNCHANGED <<rivals, disabled, kept>>

SlugFree(s) == \A t \in Signups \ {s} : ~ HoldsSlug(t, up[s].slug)

AddTenant(s) ==
  /\ up[s].pc = "named" /\ SlugFree(s)
  /\ Step(s, IF \E t \in Committed : up[t].slug = up[s].slug THEN "failed" ELSE "tenant")
  /\ UNCHANGED <<rivals, disabled, kept>>

\* Membership, agent and tokens.  The answer leaves before or after the commit,
\* as the web framework's version has it.
EndSignup(s) ==
  /\ up[s].pc = "tenant"
  /\ Step(s, "committed")
  /\ UNCHANGED <<rivals, disabled, kept>>

\* The database gives up a transaction.
SignupFails(s) ==
  /\ up[s].pc \in {"user", "tenant"}
  /\ Step(s, "aborted")
  /\ UNCHANGED <<rivals, disabled, kept>>

----------------------------------------------------------------------------
(* Tokens: _tokens_for, login, refresh                                     *)

BothTokens(s) == [user |-> s, access |-> "valid", refresh |-> "valid"]

SignedUp(b, s) ==
  /\ kept[b] = NoToken /\ up[s].pc \in {"tenant", "committed"}
  /\ kept' = [kept EXCEPT ![b] = BothTokens(s)]
  /\ UNCHANGED <<up, rivals, disabled>>

IsActive_Always(s) == TRUE
IsActive(s) == s \in Committed \ disabled

Login(b, s) ==
  /\ kept[b].access # "valid" /\ IsActive(s)
  /\ kept' = [kept EXCEPT ![b] = BothTokens(s)]
  /\ UNCHANGED <<up, rivals, disabled>>

\* Old refresh tokens stay valid.
Refresh(b) ==
  /\ kept[b].refresh = "valid" /\ IsActive(kept[b].user)
  /\ kept' = [kept EXCEPT ![b] = BothTokens(kept[b].user)]
  /\ UNCHANGED <<up, rivals, disabled>>

Expire(b, which) ==
  /\ kept[b][which] = "valid"
  /\ kept' = [kept EXCEPT ![b][which] = "expired"]
  /\ UNCHANGED <<up, rivals, disabled>>

\* An operator unsets is_active in the database.
Disable(s) ==
  /\ s \in Committed \ disabled
  /\ disabled' = disabled \union {s}
  /\ UNCHANGED <<up, rivals, kept>>

\* get_context asks the database; get_active_tenant_id and get_voice_identity
\* believe the token.
Admitted(b) == kept[b].access = "valid" /\ IsActive(kept[b].user)
BelievedTenant(b) == kept[b].access = "valid"

SignupStep(s) ==
  LookForEmail(s) \/ AddUser(s) \/ ChooseSlug(s) \/ AddTenant(s) \/ EndSignup(s) \/ SignupFails(s)

AccountsNext ==
  \/ \E s \in Signups :
       \/ \E email \in Emails, name \in Names : Ask(s, email, name)
       \/ SignupStep(s) \/ Disable(s)
       \/ \E b \in Browsers : SignedUp(b, s) \/ Login(b, s)
  \/ \E b \in Browsers : Refresh(b) \/ Expire(b, "access") \/ Expire(b, "refresh")

\* Requests run on, those that wait for an index once its holders are done, and
\* tokens expire.
AccountsFairness ==
  /\ \A s \in Signups : WF_accountVars(SignupStep(s))
  /\ \A b \in Browsers : WF_accountVars(Expire(b, "access"))

AccountsSpec == AccountsInit /\ [][AccountsNext]_accountVars /\ AccountsFairness

----------------------------------------------------------------------------
(* Properties                                                              *)

\* Types, and what the unique indexes promise: one account for each e-mail,
\* one workspace for each slug.
AccountsTypeOK ==
  /\ up \in [Signups -> [pc : {"idle", "asking", "asked", "user", "named", "tenant", "committed",
                               "conflict", "failed", "aborted"},
                         email : Emails \union {"none"}, name : Names \union {"none"},
                         slug : Names \union Signups \union {"none"}]]
  /\ rivals \subseteq Signups /\ disabled \subseteq Committed
  /\ \A b \in Browsers : kept[b] # NoToken => kept[b].user \in Signups
  /\ \A s, t \in Committed : s # t => up[s].email # up[t].email /\ up[s].slug # up[t].slug

\* A sign-up fails on an index only beside another one with its e-mail or its
\* name: a name that is taken already gives it another slug.
FailsOnlyBesideRival == \A s \in Signups : up[s].pc = "failed" => s \in rivals

\* Sign-ups that wait for each other's values do not wait in a circle.
EverySignupEnds == \A s \in Signups : up[s].pc = "asking" ~> s \notin Running

\* The gates that believe the token let a disabled user in, and one whose
\* sign-up was rolled back after the answer, until the access token expires:
\* then for good, since no token follows it.
GoneIsOut ==
  \A s \in Signups, b \in Browsers :
    (s \in disabled \/ up[s].pc = "aborted") ~> [](kept[b].user = s => ~BelievedTenant(b))

\* Sign-ups end, in an account or beside a rival, and so does what is left of
\* an account that is gone.
SignupsEnd == [](AccountsTypeOK /\ FailsOnlyBesideRival) /\ EverySignupEnds /\ GoneIsOut

============================================================================
