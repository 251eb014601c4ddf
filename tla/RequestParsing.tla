---------------------------- MODULE RequestParsing ----------------------------
(***************************************************************************)
(* What the front ends check of a request before anything is done:         *)
(* ogc/ows/request.py for the OWS requests, by GET and by POST, and        *)
(* ogc/api/request.py and handlers/processeshandler.py for the others.     *)
(*                                                                         *)
(* An operator returns the status of the error that the code raises first, *)
(* or 0.  The parts of a request are fields of records, Absent when they   *)
(* are not given and Junk when they cannot be converted.                   *)
(***************************************************************************)
EXTENDS AccessControl

CONSTANTS
  Junk,           \* a text that is not what its place requires
  ServerTimeout,  \* response_timeout
  ServerExpiration, \* response_expiration
  EnableJobRealm, \* enable_job_realm
  AdminRealm,     \* admin_realm, Absent if it is empty
  Keywords,       \* metadata: which of "keywords", "keywords_type" are set
  BadMaps         \* maps whose project cannot be loaded

ASSUME TimeoutAssumption == ServerTimeout \in Nat \ {0} /\ ServerExpiration \in Nat \ {0}

(* A check, and checks in their order: the first that fails decides.       *)
Check(failed, status) == IF failed THEN status ELSE 0
a ?? b == IF a = 0 THEN b ELSE a

NotPositive(n) == n \in Int /\ n <= 0

-------------------------------------------------------------------------------
(* OWS                                                                     *)

BadVersion(v)  == v # "1.0.0"           \* absent, or not supported
BadLanguage(l) == l \notin {Absent, "en-US"}

(* check_accepted_versions: the last of the accepted versions that is      *)
(* supported; the default without any.                                     *)
BadAcceptedVersions(vs) == vs # <<>> /\ "1.0.0" \notin ToSet(vs)

(* check_and_set_timeout and check_and_set_expiration.  The message of the *)
(* error names a variable that is not set if the conversion failed.        *)
DurationError(param) == Check(param = Junk, 500) ?? Check(NotPositive(param), 400)

(* check_service, in the handler, for POST too.                            *)
ServiceError(r) == Check(r.service # "wps", 400)
VersionError(r) == Check(BadVersion(r.version), 400) ?? Check(BadLanguage(r.language), 400)
IdentError(r)   == Check(r.idents = <<>>, 400)

ParseGet(r) == ServiceError(r) ??
  CASE r.operation = "getresults" -> Check(r.job = Absent, 400)
    [] r.operation = "getcapabilities" -> Check(BadAcceptedVersions(r.versions), 400)
    [] r.operation = "describeprocess" -> VersionError(r) ?? IdentError(r)
    [] r.operation = "execute" -> VersionError(r) ?? IdentError(r) ??
                                  DurationError(r.timeout) ?? DurationError(r.expire)
    [] OTHER -> 400    \* REQUEST is missing or unknown

(* By POST the document is parsed; timeouts are attributes of a            *)
(* ResponseDocument, and GetResults does not exist.  DescribeProcess       *)
(* accepts that there is no identifier.                                    *)
Silent(r) == r.post /\ r.body # "response"
ParsePost(r) == ServiceError(r) ?? Check(r.body = Junk, 400) ??
  CASE r.operation = "getcapabilities" -> Check(BadAcceptedVersions(r.versions), 400)
    [] r.operation = "describeprocess" -> VersionError(r)
    [] r.operation = "execute" -> VersionError(r) ?? IdentError(r) ??
         IF Silent(r) THEN 0 ELSE DurationError(r.timeout) ?? DurationError(r.expire)
    [] OTHER -> 400

ParseOws(r) == IF r.post THEN ParsePost(r) ELSE ParseGet(r)

(* A document without ResponseDocument says nothing of timeouts, nor that  *)
(* the answer is to be stored.                                             *)
TimeoutOf(r) == IF Silent(r) THEN Absent ELSE r.timeout
ExpireOf(r)  == IF Silent(r) THEN Absent ELSE r.expire
AsyncOf(r)   == ~Silent(r) /\ r.async

(* get_capabilities adds the type of the keywords to an element that it    *)
(* made only if there are keywords.                                        *)
CapabilitiesError == Check("keywords_type" \in Keywords /\ "keywords" \notin Keywords, 500)

(* describe: 'all' stands for every process, whatever the policy said of   *)
(* the identifiers that were given.                                        *)
Described(idents) == IF All \in ToSet(idents) THEN Processes ELSE ToSet(idents)

-------------------------------------------------------------------------------
(* Processes and jobs                                                      *)

(* get_processes: all must be published, and the loader must have been     *)
(* able to make them with the map.                                         *)
ProcessError(idents, map, unknown) ==
  Check(~(idents \subseteq Processes), unknown) ?? Check(map \in BadMaps, 500)

(* Mutant: the default is not a bound. *)
EffectiveTimeoutUnbounded(param) == IF param = Absent THEN ServerTimeout ELSE param

(* What a request gets of the timeout and of the expiration it asked.      *)
EffectiveTimeout(param) ==
  IF param = Absent THEN ServerTimeout ELSE Min({ServerTimeout, param})
EffectiveExpiration(param) == IF param = Absent THEN ServerExpiration ELSE param

(* The preferences of the header: a number that cannot be converted is a   *)
(* ValueError, which nothing catches.                                      *)
PreferenceError(r) == Check(Junk \in {r.timeout, r.expire}, 500)
LimitError(r) == Check(NotPositive(r.timeout) \/ NotPositive(r.expire), 400)

(* must_check_realm *)
MustCheckRealm(realm) ==
  IF EnableJobRealm THEN AdminRealm = Absent \/ realm # AdminRealm ELSE realm # Absent
===============================================================================
