------------------------------ MODULE SubList -------------------------------
(* The trie that maps subjects to what was registered for them, with its     *)
(* cache of results (util/sublist.go).                                       *)
(* A node of the trie is the sequence of tokens that leads to it; the        *)
(* element registered for a subject is the subject itself.                   *)
EXTENDS Subjects, FiniteSets, FiniteSetsExt, Helpers

CONSTANTS
    SLSubjects,     \* subjects that may be inserted
    SLInvalid,      \* subjects that Insert refuses
    SLKeys,         \* subjects that are looked up
    SLUniverse,     \* subjects without wildcards
    slCacheMax,
    SLMaxCount      \* bound on the elements in the list

VARIABLES
    elements,       \* node -> number of elements registered there
    slCache,        \* key -> result
    slMissed,       \* the key that a caller of Match did not find in the cache
    slStray         \* history: nodes that failed inserts left behind

slVars == <<elements, slCache, slMissed, slStray>>

NoKey == <<>>
Nodes == DOMAIN elements

SLInit == elements = EmptyFcn /\ slCache = EmptyFcn /\ slMissed = NoKey /\ slStray = {}

SLCount == FoldFunction(LAMBDA n, sum : n + sum, 0, elements)
NodesOn(subject) == {SubSeq(subject, 1, i) : i \in DOMAIN subject}

-----------------------------------------------------------------------------
RegisteredAt(node) == [i \in 1..elements[node] |-> node]
At(node) == IF node \in Nodes THEN RegisteredAt(node) ELSE <<>>
\* A level holds wildcard nodes apart from its named nodes.
AtNamed(node) == IF Last(node) \in {pwc, fwc} THEN <<>> ELSE At(node)

\* What the levels below node hold for the tokens: the elements of ">", those
\* below "*", then those of the token.
RECURSIVE matchLevel(_, _)
matchLevel(node, toks) ==
    IF toks = <<>> THEN <<>>
    ELSE LET any == Append(node, pwc)
             named == Append(node, Head(toks))
         IN  At(Append(node, fwc))
             \o (IF any \in Nodes THEN matchLevel(any, Tail(toks)) ELSE <<>>)
             \o (IF Len(toks) = 1 THEN At(any) \o AtNamed(named)
                 ELSE IF named \in Nodes /\ Head(toks) \notin {pwc, fwc}
                 THEN matchLevel(named, Tail(toks)) ELSE <<>>)

addToCache(subject) ==
    [k \in DOMAIN slCache |-> IF matchLiteral(k, subject) THEN Append(slCache[k], subject) ELSE slCache[k]]

\* An empty token, or a token after ">", is an error.
BadToken(subject, i) == subject[i] = "" \/ (i > 1 /\ subject[i - 1] = fwc)
ValidPrefix(subject) ==
    SubSeq(subject, 1, Min({i \in DOMAIN subject : BadToken(subject, i)}) - 1)

Insert(subject) ==
    /\ SLCount < SLMaxCount
    /\ elements' = [node \in Nodes \cup NodesOn(subject) |->
                      Len(At(node)) + (IF node = subject THEN 1 ELSE 0)]
    /\ slCache' = addToCache(subject)
    /\ UNCHANGED <<slMissed, slStray>>

\* ErrInvalidSubject, with the nodes for the tokens before the bad one created.
InsertInvalid(subject) ==
    LET created == NodesOn(ValidPrefix(subject)) \ Nodes
    IN  /\ elements' = elements @@ [node \in created |-> 0]
        /\ slStray' = slStray \cup created
        /\ UNCHANGED <<slCache, slMissed>>

\* pruneNode, from the last node of the subject up: a node without elements and
\* without nodes below it is removed.
prune(els, subject) ==
    LET kept(node) == \E other \in DOMAIN els :
            IsPrefix(node, other) /\ (els[other] > 0 \/ other \notin NodesOn(subject))
    IN  [node \in {n \in DOMAIN els : n \in NodesOn(subject) => kept(n)} |-> els[node]]

removeKeyFromCache(subject) == Without(slCache, {subject})
removeFromCache(subject) == Without(slCache, {k \in DOMAIN slCache : matchLiteral(k, subject)})

\* Sublist.Remove finds the element or fails and changes nothing.
RemoveElement(subject) ==
    /\ subject \in Nodes /\ elements[subject] > 0
    /\ elements' = prune([elements EXCEPT ![subject] = @ - 1], subject)
    /\ slCache' = removeFromCache(subject)
    /\ slStray' = slStray \cap DOMAIN elements'
    /\ UNCHANGED slMissed

\* Match looks into the cache, unlocks, and locks again to walk the trie.
Match(key) ==
    /\ slMissed = NoKey /\ key \notin DOMAIN slCache
    /\ slMissed' = key
    /\ UNCHANGED <<elements, slCache, slStray>>

Evict(c) == IF Cardinality(DOMAIN c) > slCacheMax THEN {Without(c, {k}) : k \in DOMAIN c} ELSE {c}

MatchLocked ==
    /\ slMissed # NoKey
    /\ slCache' \in Evict(With(slCache, slMissed, matchLevel(<<>>, slMissed)))
    /\ slMissed' = NoKey
    /\ UNCHANGED <<elements, slStray>>

SLNext ==
    \/ \E subject \in SLSubjects : Insert(subject) \/ RemoveElement(subject)
    \/ \E subject \in SLInvalid : InsertInvalid(subject)
    \/ \E key \in SLKeys : Match(key)
    \/ MatchLocked

SLSpec == SLInit /\ [][SLNext]_slVars

-----------------------------------------------------------------------------
\* The state has the shape of the code's.
SLTypeOK ==
    /\ \A node \in Nodes : elements[node] \in 0..SLMaxCount
    /\ \A key \in DOMAIN slCache : key \in SLKeys /\ Range(slCache[key]) \subseteq SLSubjects
    /\ slMissed \in SLKeys \cup {NoKey}

\* The elements that match a key, and whether a result has each of them once.
Matching(key) == {subject \in Nodes : elements[subject] > 0 /\ matchLiteral(key, subject)}
IsMatch(key, result) ==
    \A subject \in SLSubjects :
        Cardinality({i \in DOMAIN result : result[i] = subject})
          = IF subject \in Matching(key) THEN elements[subject] ELSE 0

\* A subject is wider than another when it stands for more literals.
Wider(a, b) == Literals(b, SLUniverse) \subseteq Literals(a, SLUniverse) /\ a # b
                 /\ ~(Literals(a, SLUniverse) \subseteq Literals(b, SLUniverse))

\* Every element counts once, in the trie and in a cached result, whatever was
\* inserted, removed, evicted and looked up in between; the trie holds the nodes on
\* the way to a registered element, or to a node that a failed Insert has left, and
\* no other; and the walk for a channel returns the widest subject first:
\* getChannelLimits takes the limits of the last one (Insert, Remove, pruneNode,
\* Match, matchLevel).
MatchRight ==
    /\ \A key \in SLKeys : IsMatch(key, matchLevel(<<>>, key))
    /\ \A key \in DOMAIN slCache : IsMatch(key, slCache[key])
    /\ Nodes = UNION {NodesOn(n) : n \in slStray \cup {m \in Nodes : elements[m] > 0}}
    /\ \A key \in SLKeys \cap SLUniverse :
          LET result == matchLevel(<<>>, key)
          IN  \A i, j \in DOMAIN result : i < j => ~Wider(result[j], result[i])
=============================================================================
