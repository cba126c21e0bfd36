-------------------------- MODULE InterpreterCache --------------------------
(***************************************************************************)
(* CachedInterpreter (pipeline/interpreter/cache.py): the verdicts of the  *)
(* semantic interpreter, kept by the shape of the request and the versions *)
(* in force when it was built, first in first out.                         *)
(***************************************************************************)
EXTENDS Naturals, Sequences

CONSTANT MaxEntries

ASSUME CacheAssumption == MaxEntries \in Nat \ {0}

VARIABLE entries   \* the cached verdicts, oldest insertion first

(* _key: what a request asks about, without its payload and principles.    *)
MutantKey(request) == [shape |-> request.shape]
Key(request) == [shape |-> request.shape, version |-> request.version]

Holds(key) == \E i \in DOMAIN entries : entries[i].key = key
Cached(key) == (CHOOSE i \in DOMAIN entries : entries[i].key = key)

IsHit(request) == Holds(Key(request))
Hit(request) == entries[Cached(Key(request))].verdict

(* A key that is already there keeps its place; else the oldest may go.    *)
MutantTrim(s) == s
Trim(s) == IF Len(s) > MaxEntries THEN Tail(s) ELSE s

Store(request, verdict) ==
  LET entry == [key |-> Key(request), verdict |-> verdict] IN
  entries' = IF Holds(Key(request))
             THEN [entries EXCEPT ![Cached(Key(request))] = entry]
             ELSE Trim(Append(entries, entry))

Invalidate == entries' = <<>>

CacheInit == entries = <<>>
=============================================================================
