---------------------------- MODULE ProjectCache ----------------------------
(* The QGIS projects that a process keeps (QgsCacheManager over lrucache).    *)
(* Each worker, and the process that loads the descriptions, has its own.     *)
(* A cache is a sequence of entries, the least recently used first.           *)
EXTENDS Naturals, Sequences, SequencesExt

CONSTANTS
  Capacity,        \* entries of a cache (projects.cache:size)
  StrictCheck,     \* refuse a project with bad layers (projects.cache:strict_check)
  DefaultScheme,   \* scheme of a MAP without one (projects.cache:default_handler)
  AllowedSchemes,  \* projects.cache:allow_storage_schemes, or the model value AnyScheme
  Aliases,         \* base of a scheme: "file" and those of [projects.schemes]
  AnyScheme, Absent

ASSUME CapacityAssumption == Capacity \in Nat \ {0}
ASSUME ErrorsAssumption == Absent \notin {"PathNotAllowed", "FileNotFound"}

(* --- lrucache ----------------------------------------------------------- *)
At(c, k) == {i \in DOMAIN c : c[i].key = k}
Peek(c, k) == IF At(c, k) = {} THEN Absent ELSE c[CHOOSE i \in At(c, k) : TRUE]
Without(c, k) == IF At(c, k) = {} THEN c ELSE RemoveAt(c, CHOOSE i \in At(c, k) : TRUE)

(* Setting an entry drops the old one, then the oldest while there is no room. *)
(* Mutant: room is made only when the cache is too long already. *)
FittedLate(c, size) == IF Len(c) <= size THEN c ELSE SubSeq(c, Len(c) - size + 2, Len(c))
Fitted(c, size) == IF Len(c) < size THEN c ELSE SubSeq(c, Len(c) - size + 2, Len(c))
Put(c, e, size) == Append(Fitted(Without(c, e.key), size), e)

(* Reading an entry makes it the most recent one. *)
Touched(c, k) == Append(Without(c, k), Peek(c, k))

(* --- where a MAP is ------------------------------------------------------ *)
(* A MAP without a known base is taken as it is: relative to nothing.          *)
SchemeOf(url) == IF url.scheme = Absent THEN DefaultScheme ELSE url.scheme
ResolveAlias(url) ==
  IF SchemeOf(url) \in DOMAIN Aliases
  THEN [scheme |-> Aliases[SchemeOf(url)].scheme, dir |-> Aliases[SchemeOf(url)].dir, path |-> url.path]
  ELSE [scheme |-> url.scheme, dir |-> Absent, path |-> url.path]

LookupError(url, files) ==
  LET place == ResolveAlias(url) IN
  CASE AllowedSchemes # AnyScheme /\ SchemeOf(place) \notin AllowedSchemes -> "PathNotAllowed"
    [] place \notin DOMAIN files -> "FileNotFound"
    [] ~files[place].exists -> "FileNotFound"
    [] OTHER -> Absent

(* --- QgsCacheManager.update_entry, in two steps -------------------------- *)
(* The time of the file is asked first; the project is read only when there is *)
(* no entry or the file is later than the entry. Equal or older times keep it. *)
(* Mutant: a project is read once for all. *)
OutdatedOnce(c, k, mtime) == Peek(c, k) = Absent
Outdated(c, k, mtime) == LET e == Peek(c, k) IN e = Absent \/ e.ts < mtime

(* What is kept is the file as it is read, with the time asked before: a file  *)
(* that vanished in between is read as an empty project (version 0).           *)
Entry(k, stat, file, nosel) ==
  [key |-> k, ver |-> IF file.exists THEN file.ver ELSE 0, ts |-> stat.mtime, sel |-> nosel]

BadLayersRefused(file) == StrictCheck /\ file.exists /\ file.bad

CacheOK(c, size) == Len(c) <= size /\ \A i, j \in DOMAIN c : c[i].key = c[j].key => i = j
=============================================================================
