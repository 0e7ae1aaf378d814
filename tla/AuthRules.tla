------------------------------ MODULE AuthRules ------------------------------
(***************************************************************************)
(* Which credentials a request works with (services/auth_resolver.py): what*)
(* a connection tells its clients to send, under which names the bridge    *)
(* looks for what they did not send, and what its driver sends (webdav.py, *)
(* edocat.py, edocat_client.py and alfresco.py).                           *)
(*                                                                         *)
(* The connection's settings are a record [mode, required, scheme, id,     *)
(* target, base], a request's credentials [id, target, user, password,     *)
(* token, win], each value possibly Absent; win is a sequence: the Windows *)
(* user name, then, if the name has a domain, the name without it.         *)
(***************************************************************************)
EXTENDS Call, SequencesExt

(* _normalize_mode; an unknown mode counts as credentials.                 *)
Mode(cfg) ==
  CASE cfg.mode = "none"    -> "none"
    [] cfg.mode = "winuser" -> "winuser"
    [] OTHER                -> "credentials"

(* In auth_requirements and in resolve_effective_auth alike.               *)
Required(cfg) ==
  IF Given(cfg.required) THEN cfg.required ELSE Mode(cfg) # "none"

(* _normalize_auth_scheme                                                  *)
Scheme(cfg, default) ==
  IF Mode(cfg) = "none" THEN "none" ELSE FirstOf(cfg.scheme, default)

(* The names: the request's own first, then the connection's.              *)
CredentialId(cfg, req) == FirstOf(req.id, FirstOf(cfg.id, cfg.target))
Target(cfg, req) == FirstOf(req.target, FirstOf(cfg.target, CredentialId(cfg, req)))

(* auth_requirements: id and target stand in for each other.               *)
Requirements(cfg) ==
  [mode |-> cfg.mode, required |-> Required(cfg),
   id |-> FirstOf(cfg.id, cfg.target), target |-> FirstOf(cfg.target, cfg.id)]

(* _credential_target_candidates: the name alone, then with each form of   *)
(* the Windows user behind a slash and a colon.                            *)
NamesFrom(base, win) ==
  IF ~Given(base) THEN <<>>
  ELSE [k \in 1..(2 * Len(win) + 1) |->
          IF k = 1 THEN <<base>>
          ELSE <<base, IF k % 2 = 0 THEN "/" ELSE ":", win[k \div 2]>>]

Once(list, name) == IF Contains(list, name) THEN list ELSE Append(list, name)
Deduplicated(names) ==
  LET kept[n \in 0..Len(names)] ==
        IF n = 0 THEN <<>> ELSE Once(kept[n - 1], names[n])
  IN  kept[Len(names)]

NamesToTry(cfg, req) ==
  Deduplicated(NamesFrom(CredentialId(cfg, req), req.win)
               \o NamesFrom(Target(cfg, req), req.win)
               \o NamesFrom(cfg.base, req.win))

-----------------------------------------------------------------------------
(* resolve_effective_auth.  found is what the names led to, if anything; it*)
(* fills in what the request leaves out, when the request has no secret.   *)

HasSecret(c) == Given(c.token) \/ (Given(c.user) /\ Given(c.password))

Mut_Completed(req, found) ==
  [user |-> FirstOf(req.user, found.user), password |-> FirstOf(found.password, req.password),
   token |-> FirstOf(found.token, req.token)]
Completed(req, found) ==
  [user |-> FirstOf(req.user, found.user), password |-> FirstOf(req.password, found.password),
   token |-> FirstOf(req.token, found.token)]

Own(req) == [user |-> req.user, password |-> req.password, token |-> req.token]

Effective(cfg, req, found) ==
  IF Mode(cfg) = "none" \/ HasSecret(req) \/ NamesToTry(cfg, req) = <<>> \/ ~Given(found)
  THEN Own(req) ELSE Completed(req, found)

Denied(cfg, req, found) ==
  Mode(cfg) = "credentials" /\ Required(cfg) /\ ~HasSecret(Effective(cfg, req, found))

(* list_path: without credentials in the request, what is advertised counts*)
(* (a setting of required that is missing asks for them, too).             *)
ListDenied(cfg, req, found) ==
  IF Given(req) THEN Denied(cfg, req, found) ELSE Requirements(cfg).required

-----------------------------------------------------------------------------
(* What a driver sends to its server with the credentials c: Absent for    *)
(* nothing, or <<"raises">> when it refuses to go on.                      *)

(* WebDAV: EffectiveAuth.authorization_headers.                            *)
WebdavSends(cfg, c, default) ==
  IF Scheme(cfg, default) = "none" THEN Absent
  ELSE IF Given(c.token) THEN <<"token", c.token>>
  ELSE IF Scheme(cfg, default) = "bearer" /\ Given(c.password) THEN <<"bearer", c.password>>
  ELSE IF Given(c.user)  THEN <<"basic", c.user, c.password>>
  ELSE IF Required(cfg)  THEN <<"raises">>
  ELSE Absent

(* eDoCat: basic_auth_headers of the user with the password or, without    *)
(* one, the token, whatever the mode and the scheme are.                   *)
EdocatSends(c) ==
  IF Given(c.user) THEN <<"basic", c.user, FirstOf(c.password, c.token)>> ELSE Absent

(* Alfresco: _ticket takes a token as it is and makes one of a user and a  *)
(* password; it does not go on with less, whatever is required.            *)
AlfrescoSends(c) ==
  IF Given(c.token) THEN <<"ticket", c.token>>
  ELSE IF Given(c.user) /\ Given(c.password) THEN <<"ticket", c.user, c.password>>
  ELSE <<"raises">>

Headers(driver, cfg, c, default) ==
  CASE driver = "webdav"   -> WebdavSends(cfg, c, default)
    [] driver = "edocat"   -> EdocatSends(c)
    [] driver = "alfresco" -> AlfrescoSends(c)

-----------------------------------------------------------------------------
(* What a connection advertises against what becomes of a request.  Where  *)
(* credentials are not required no request is denied, and only Alfresco    *)
(* cannot do without.  Where they are, a request that is let through goes  *)
(* to the server unauthenticated in two cases only: WebDAV with the scheme *)
(* "none", and eDoCat without a user, which is a token alone or, for       *)
(* "winuser", nothing found.  In mode "none" no stored secret is sent:     *)
(* WebDAV sends nothing, eDoCat and Alfresco what the request brought.     *)
AdvertisedIsEnforced ==
  Asks("auth") =>
    LET cfg    == call.config
        req    == call.request
        eff    == Effective(cfg, req, call.found)
        sent   == Headers(call.driver, cfg, eff, call.default)
        denied == Denied(cfg, req, call.found)
    IN
    /\ ~Requirements(cfg).required =>
         ~denied /\ (sent = <<"raises">> => call.driver = "alfresco" /\ ~HasSecret(eff))
    /\ ListDenied(cfg, req, call.found) => ListDenied(cfg, Absent, call.found)
    /\ Requirements(cfg).required /\ ~denied /\ ~Given(sent) =>
         \/ call.driver = "webdav" /\ Scheme(cfg, call.default) = "none"
         \/ /\ call.driver = "edocat" /\ ~Given(eff.user)
            /\ Mode(cfg) = "credentials" => Given(eff.token)
    /\ Mode(cfg) = "none" /\ Given(sent) /\ sent # <<"raises">> =>
         /\ call.driver # "webdav"
         /\ sent = Headers(call.driver, cfg, Own(req), call.default)

(* What the request brings comes first, and secrets are not mixed up: a    *)
(* request with a secret is served with its own, and what the bridge found *)
(* goes out under the name it was found with, unless the request named a   *)
(* user without a secret.  Credentials are looked for under the request's  *)
(* own name before the connection's, under every name before the same with *)
(* a user added, and under no name twice.                                  *)
RequestComesFirst ==
  Asks("auth") =>
    LET req    == call.request
        eff    == Effective(call.config, req, call.found)
        names  == NamesToTry(call.config, req)
        Pos(n) == SelectInSeq(names, LAMBDA m : m = n)
    IN
    /\ HasSecret(req) => eff = Own(req)
    /\ Given(eff.password) /\ eff.password # req.password =>
         eff.user = call.found.user \/ Given(req.user)
    /\ Given(req.password) => eff.password = req.password
    /\ Given(req.token) => eff.token = req.token
    /\ \A i, j \in DOMAIN names : names[i] = names[j] => i = j
    /\ Given(req.id) => names[1] = <<req.id>>
    /\ \A i \in DOMAIN names : Pos(<<names[i][1]>>) \in 1..i
    /\ {names[i][1] : i \in DOMAIN names} =
         {CredentialId(call.config, req), Target(call.config, req),
          call.config.base} \ {Absent}

(* The rules for credentials agree: what is advertised is what is denied   *)
(* and sent, and what the request brings comes first.                      *)
CredentialRules == AdvertisedIsEnforced /\ RequestComesFirst
=============================================================================
