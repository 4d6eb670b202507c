----------------------------- MODULE OAuthGrant -----------------------------
(***************************************************************************)
(* One OAuth grant, from the challenge to the token: prepare_oauth of      *)
(* engine run/connect.rs with the crate auth (discovery, registration,     *)
(* pkce, callback, token, policy).  A reauthorization goes through the     *)
(* same steps with the challenge of the answer that asked for it.          *)
(*                                                                         *)
(* What a server says is chosen where it is used; a fact that is used      *)
(* twice is kept in facts.                                                 *)
(***************************************************************************)
EXTENDS Integers, FiniteSets

VARIABLES
    plan,     \* the AuthConfig
    step,     \* what the grant does next
    tries,    \* well-known URLs that are left
    facts,    \* history: what is true of the servers that were spoken to
    client,   \* the ClientRegistration
    sent      \* history: the secrets that went out, and how

grantVars == <<plan, step, tries, facts, client, sent>>

Methods == {"none", "client_secret_basic", "client_secret_post"}

\* Of the plans only those that validate_auth accepts.
AuthConfig ==
    {p \in [flow : {"client_credentials", "authorization_code"},
            registration : {"pre_registered", "client_id_metadata", "dynamic"},
            secret : BOOLEAN, method : Methods \cup {"auto"}] :
        /\ p.flow = "client_credentials" => p.registration = "pre_registered" /\ p.secret
        /\ p.registration # "pre_registered" => ~p.secret /\ p.method = "auto"}

Nowhere == [resource |-> "unknown", issuer |-> "unknown", address |-> "unknown", callback |-> "none"]

GrantInit ==
    /\ plan \in AuthConfig /\ step = "probe" /\ tries = 0 /\ facts = Nowhere
    /\ client = [secret |-> FALSE, method |-> "auto"] /\ sent = {}

GrantFails ==
    /\ step \notin {"granted", "failed"}
    /\ step' = "failed"
    /\ UNCHANGED <<plan, tries, facts, client, sent>>

-----------------------------------------------------------------------------
(***************************************************************************)
(* EndpointPolicy.                                                         *)
(***************************************************************************)
\* A URL is one that validate refuses, or its name has these addresses now.
Endpoints == {"refused", "private", "public"}

\* validate, and client_for: all addresses are looked at and only those dialled.
Dialled(e) == e = "public"

-----------------------------------------------------------------------------
(***************************************************************************)
(* Discovery.                                                              *)
(***************************************************************************)
\* The unauthorized request: no challenge, or one that may name the metadata; any other
\* answer, or a challenge that does not parse, fails (discover_oauth_challenge).
Probe ==
    /\ step = "probe"
    /\ step' = "protected"
    /\ tries' \in {1, 2} \* the metadata URL or the root, or the path and the root
    /\ UNCHANGED <<plan, facts, client, sent>>

\* A document, or a 404 after which the next URL is tried.
NextCandidate ==
    /\ step \in {"protected", "server"} /\ tries > 1
    /\ tries' = tries - 1
    /\ UNCHANGED <<plan, step, facts, client, sent>>

\* resource_is_allowed: the same origin, and the path or a parent of it.
ProtectedResource ==
    /\ step = "protected"
    /\ \E e \in Endpoints, resource \in {"same", "parent", "sibling", "elsewhere"},
          named \in BOOLEAN, issuer \in Endpoints :
        /\ Dialled(e)
        /\ resource \in {"same", "parent"} /\ named /\ issuer # "refused"
        /\ facts' = [facts EXCEPT !.resource = resource]
    /\ step' = "server" /\ tries' \in {2, 3}
    /\ UNCHANGED <<plan, client, sent>>

\* mutant: the issuer of the metadata is not compared
AnyIssuer ==
    /\ step = "server"
    /\ \E e \in Endpoints, issuer \in {"own", "foreign"} :
        /\ Dialled(e)
        /\ facts' = [facts EXCEPT !.issuer = issuer]
    /\ step' = "endpoints"
    /\ UNCHANGED <<plan, tries, client, sent>>

\* The metadata must name the very issuer it was looked up for.
AuthorizationServer ==
    /\ step = "server"
    /\ \E e \in Endpoints, issuer \in {"own", "foreign"} :
        /\ Dialled(e) /\ issuer = "own"
        /\ facts' = [facts EXCEPT !.issuer = issuer]
    /\ step' = "endpoints"
    /\ UNCHANGED <<plan, tries, client, sent>>

\* validate_metadata_endpoints: those that are there resolve to public addresses, now.
ValidateEndpoints ==
    /\ step = "endpoints"
    /\ step' = "register"
    /\ UNCHANGED <<plan, tries, facts, client, sent>>

-----------------------------------------------------------------------------
(***************************************************************************)
(* Registration, and the authorization of a user.                          *)
(***************************************************************************)
AfterRegistration == IF plan.flow = "client_credentials" THEN "exchange" ELSE "authorize"

Register ==
    /\ step = "register"
    /\ client' \in CASE plan.registration = "pre_registered" -> {[secret |-> plan.secret, method |-> plan.method]}
                      [] plan.registration = "client_id_metadata" -> {[secret |-> FALSE, method |-> "none"]}
                      \* dynamic_register: what the server answers is taken
                      [] OTHER -> [secret : BOOLEAN, method : Methods]
    /\ step' = AfterRegistration
    /\ UNCHANGED <<plan, tries, facts, sent>>

\* begin: only with S256, and to a loopback redirect.
BeginAuthorization ==
    /\ step = "authorize"
    /\ \E s256 \in BOOLEAN, endpoint \in BOOLEAN : s256 /\ endpoint
    /\ step' = "callback"
    /\ UNCHANGED <<plan, tries, facts, client, sent>>

\* The one request the listener accepts: to the path or another, with each parameter at
\* most once or twice, with the state and issuer of this authorization or others.
Callbacks == [redirect : BOOLEAN, twice : BOOLEAN, error : BOOLEAN, code : BOOLEAN,
              state : {"own", "none", "other"}, issuer : {"own", "none", "other"}]

\* from_url and complete; the issuer may be missing unless the server promised it.
Completes(c, required) ==
    /\ c.redirect /\ ~c.twice /\ ~c.error /\ c.code /\ c.state = "own"
    /\ c.issuer = "own" \/ (c.issuer = "none" /\ ~required)

CallbackArrives ==
    /\ step = "callback"
    /\ \E c \in Callbacks, required \in BOOLEAN :
        /\ Completes(c, required)
        /\ facts' = [facts EXCEPT !.callback = IF c.state = "own" /\ c.issuer # "other" THEN "own" ELSE "foreign"]
    /\ step' = "exchange"
    /\ UNCHANGED <<plan, tries, client, sent>>

-----------------------------------------------------------------------------
(***************************************************************************)
(* The token endpoint.                                                     *)
(***************************************************************************)
Supports(supported, m) == supported = {} \/ m \in supported

\* resolve_auth_method.
ResolveAuthMethod(supported) ==
    IF client.method # "auto" THEN (IF Supports(supported, client.method) THEN client.method ELSE "error")
    ELSE IF client.secret /\ Supports(supported, "client_secret_basic") THEN "client_secret_basic"
    ELSE IF client.secret /\ Supports(supported, "client_secret_post") THEN "client_secret_post"
    ELSE IF Supports(supported, "none") THEN "none" ELSE "error"

\* exchange: the addresses are looked up again; what is sent depends on the method. The
\* environment may lack the secret.
Exchange ==
    /\ step = "exchange"
    /\ \E e \in Endpoints, supported \in SUBSET Methods, present \in BOOLEAN :
        LET method == ResolveAuthMethod(supported)
            secrets == (IF method \in {"client_secret_basic", "client_secret_post"} THEN {"client_secret"} ELSE {})
                       \cup (IF plan.flow = "authorization_code" THEN {"code"} ELSE {}) IN
        /\ Dialled(e) /\ method # "error"
        /\ method # "none" => client.secret /\ present
        /\ facts' = [facts EXCEPT !.address = e]
        /\ sent' = sent \cup {[secret |-> s, offered |-> Supports(supported, method)] : s \in secrets}
    /\ step' = "answer"
    /\ UNCHANGED <<plan, tries, client>>

\* token_set: a bearer token that is not empty.
TokenArrives ==
    /\ step = "answer"
    /\ step' = "granted"
    /\ UNCHANGED <<plan, tries, facts, client, sent>>

GrantStep == \/ GrantFails \/ Probe \/ NextCandidate \/ ProtectedResource \/ AuthorizationServer
             \/ ValidateEndpoints \/ Register \/ BeginAuthorization \/ CallbackArrives
             \/ Exchange \/ TokenArrives

-----------------------------------------------------------------------------
\* A secret goes out only to a public address of the authorization server which the
\* protected resource of the configured server names, by a method that server offers,
\* and a code only if the callback was the answer to this authorization (discover,
\* complete, resolve_auth_method, client_for).
SecretsGoHome ==
    \A s \in sent :
        /\ facts.resource \in {"same", "parent"} /\ facts.issuer = "own" /\ facts.address = "public" /\ s.offered
        /\ s.secret = "code" => facts.callback = "own"

\* The inductive invariant: what a grant has found out by the step it is at.
GrantInv ==
    /\ SecretsGoHome
    /\ sent # {} => step \in {"answer", "granted", "failed"}
    /\ step \notin {"probe", "protected", "failed"} => facts.resource \in {"same", "parent"}
    /\ step \notin {"probe", "protected", "server", "failed"} => facts.issuer = "own"
    /\ step \in {"exchange", "answer", "granted"} /\ plan.flow = "authorization_code" => facts.callback = "own"
    /\ facts \in [resource : {"unknown", "same", "parent"}, issuer : {"unknown", "own"},
                  address : {"unknown", "public"}, callback : {"none", "own"}]
=============================================================================
