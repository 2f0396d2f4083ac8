----------------------------- MODULE HttpHandler -----------------------------
(***************************************************************************)
(* What handle_http makes of a request, http_handler.rs.  A request is a   *)
(* record of the parts the handler looks at; a header may be missing or    *)
(* hold bytes that are not UTF-8.  httparse is external: it tells whether  *)
(* the bytes read so far are a complete head, a partial one or no HTTP.    *)
(***************************************************************************)

CONSTANTS
  RawDomains,  \* the domains as they are spelled in a path
  RawNames,    \* the challenge names as they are spelled in a header
  Domains,     \* the domains without trailing dots
  Names,       \* the names without trailing dots
  Values,      \* the challenge values
  TrimDots     \* trim_end_matches('.')

ASSUME TrimAssumption ==
  /\ TrimDots \in [RawDomains \cup RawNames -> Domains \cup Names]
  /\ \A d \in RawDomains : TrimDots[d] \in Domains
  /\ \A n \in RawNames : TrimDots[n] \in Names

Missing == "missing"
NotUtf8 == "not utf-8"

Methods == {"GET", "POST", "DELETE", "PUT"}

\* The request target: "/", REGISTER_PATH followed by a domain, or another.
Paths == {"root", "register", "elsewhere"}

Request ==
  [wellformed : BOOLEAN, method : Methods, path : Paths, domain : RawDomains,
   name : RawNames \cup {Missing, NotUtf8}, value : Values \cup {Missing, NotUtf8}]

StatusCode ==
  {"OK", "CREATED", "NO_CONTENT", "BAD_REQUEST", "NOT_FOUND", "METHOD_NOT_ALLOWED"}

-----------------------------------------------------------------------------
(* challenge_from_req: Ok(challenge), or Err(()).                          *)

IsChallenge(req) ==
  /\ req.name \notin {Missing, NotUtf8}
  /\ req.value \notin {Missing, NotUtf8}

\* The domain and the name lose their trailing dots, the value does not.
challenge_from_req(req) ==
  [domain |-> TrimDots[req.domain], name |-> TrimDots[req.name], value |-> req.value]

-----------------------------------------------------------------------------
(* The routes of handle_http.                                              *)

Registers(req) ==
  req.method = "POST" /\ req.path = "register" /\ IsChallenge(req)

Unregisters(req) ==
  req.method = "DELETE" /\ req.path = "register" /\ IsChallenge(req)

\* Mutant of status_code: a deletion falls through to the last route.
StatusOfPostsOnly(req) ==
  CASE req.path = "root" /\ req.method = "GET" -> "OK"
    [] Registers(req) -> "CREATED"
    [] req.path = "register" /\ req.method # "POST" -> "METHOD_NOT_ALLOWED"
    [] OTHER -> "NOT_FOUND"

status_code(req) ==
  CASE req.path = "root" /\ req.method = "GET" -> "OK"
    [] Registers(req) -> "CREATED"
    [] Unregisters(req) -> "NO_CONTENT"
    [] req.path = "register" /\ req.method \in {"POST", "DELETE"} /\ ~IsChallenge(req)
         -> "BAD_REQUEST"
    [] req.path = "register" /\ req.method \notin {"POST", "DELETE"}
         -> "METHOD_NOT_ALLOWED"
    [] OTHER -> "NOT_FOUND"
=============================================================================
