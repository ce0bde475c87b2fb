----------------------------- MODULE LoggerTree -----------------------------
(***************************************************************************)
(* The logger hierarchy of rsc::logging::LoggerFactory                     *)
(* (src/src/rsc/logging/LoggerFactory.cpp) over the LoggerTreeNode tree    *)
(* (src/src/rsc/logging/LoggerTreeNode.cpp).                               *)
(*                                                                         *)
(* A logger name is a sequence of characters; nameToPath cuts it at '.'    *)
(* into the path of name components that names a node, the root by <<>>.  *)
(* Each node owns a proxy whose logger has a level and a name and was      *)
(* created by a logging system; a node may have an assigned level.  The    *)
(* ConsoleLogger behind a proxy keeps its level and name under its own     *)
(* mutex, always taken inside the factory's.  Setting a level through a    *)
(* proxy calls the proxy's TreeLevelUpdater, which assigns the level to    *)
(* the node and pushes it down to descendants without an assigned level.   *)
(* Every operation runs under the factory's recursive mutex, so each is    *)
(* one step.  A proxy handed out by getLogger keeps only a weak pointer to *)
(* its node; clearKnownLoggers drops every node below the root, and a      *)
(* proxy a client still holds for a dropped node is "detached".  Any node  *)
(* of the tree can be reached by getLogger, so setLevel is enabled on all. *)
(*                                                                         *)
(* Client threads log through the proxies: ConsoleLogger::log takes the    *)
(* logger's mutex, tests isEnabledFor, and prints a header and a body to   *)
(* cerr.  A factory operation that reads or sets the level of a logger a   *)
(* thread holds waits for that mutex; it is one step, taken once every     *)
(* logger it touches is free.                                              *)
(***************************************************************************)
EXTENDS Naturals, SequencesExt

CONSTANTS
    LoggerNames,   \* names getLogger is called with (character sequences)
    Levels,        \* Logger::Level values used
    DefaultLevel,  \* LoggerFactory::DEFAULT_LEVEL
    Systems,       \* logging systems reselectLoggingSystem may select
    DefaultSystem, \* the system selected by the constructor
    NoLevel,       \* no assigned level
    Threads,       \* client threads calling log
    NoNode,        \* a thread's logger belongs to no node of the tree
    IsEnabledFor(_, _) \* Logger::isEnabledFor(message level, logger level)

ASSUME /\ DefaultLevel \in Levels /\ NoLevel \notin Levels
       /\ DefaultSystem \in Systems
       /\ \A m, l \in Levels : IsEnabledFor(m, l) \in BOOLEAN

Root == <<>>

(* Mutant: a split that drops the empty components. *)
RECURSIVE SplitCompressed(_)
SplitCompressed(n) ==
    LET dots == {i \in DOMAIN n : n[i] = "."}
        rest == IF dots = {} THEN <<>> ELSE SubSeq(n, Min(dots) + 1, Len(n))
        first == IF dots = {} THEN n ELSE SubSeq(n, 1, Min(dots) - 1)
    IN (IF first = <<>> THEN <<>> ELSE <<first>>)
       \o (IF dots = {} THEN <<>> ELSE SplitCompressed(rest))

NameToPathCompressed(n) == IF n = <<>> THEN <<>> ELSE SplitCompressed(n)

(* boost::algorithm::split at every '.', empty components included. *)
RECURSIVE SplitAtDots(_)
SplitAtDots(n) ==
    LET dots == {i \in DOMAIN n : n[i] = "."}
    IN IF dots = {} THEN <<n>>
       ELSE <<SubSeq(n, 1, Min(dots) - 1)>>
            \o SplitAtDots(SubSeq(n, Min(dots) + 1, Len(n)))

(* LoggerTreeNode::nameToPath: the empty name is the root's empty path. *)
NameToPath(n) == IF n = <<>> THEN <<>> ELSE SplitAtDots(n)

(* LoggerTreeNode::pathToName: the components joined with '.'. *)
PathToName(p) ==
    IF p = <<>> THEN <<>>
    ELSE FoldLeft(LAMBDA acc, c : acc \o <<".">> \o c, p[1], Tail(p))

(* The nodes getLogger can create: the prefixes of the requested paths. *)
Paths == UNION {Prefixes(NameToPath(n)) : n \in LoggerNames}
Chars == UNION {Range(n) : n \in LoggerNames}

ASSUME NoNode \notin Paths

VARIABLES
    nodes,        \* paths of the nodes in the tree
    assigned,     \* LoggerTreeNode::assignedLevel of each node
    level,        \* level of the logger behind each node's proxy
    system,       \* LoggerFactory::loggingSystem
    loggerSystem, \* the system that created each node's current logger
    loggerName,   \* the name that system was given for each node's logger
    detached,     \* a client holds the proxy of a dropped node
    crashed,      \* a TreeLevelUpdater dereferenced an expired node
    thread        \* each client thread's place in ConsoleLogger::log

vars == <<nodes, assigned, level, system, loggerSystem, loggerName, detached,
          crashed, thread>>

(* A thread outside log (idle), or inside it before printing the header   *)
(* or the body of a message of level lvl, holding the mutex of the logger *)
(* of node `node` (NoNode when idle or once the node is dropped).         *)
ThreadStates ==
    [pc : {"idle", "header", "body"}, node : Paths \cup {NoNode}, lvl : Levels]

Idle == [pc |-> "idle", node |-> NoNode, lvl |-> DefaultLevel]

TypeOK ==
    /\ Root \in nodes /\ nodes \subseteq Paths
    /\ assigned \in [Paths -> Levels \cup {NoLevel}]
    /\ level \in [Paths -> Levels]
    /\ system \in Systems /\ loggerSystem \in [Paths -> Systems]
    /\ loggerName \in [Paths -> Seq(Chars)]
    /\ detached \in BOOLEAN
    /\ crashed \in BOOLEAN
    /\ thread \in [Threads -> ThreadStates]

(* LoggerFactory(): the root logger gets DEFAULT_LEVEL, also as its        *)
(* assigned level.  Entries of paths not in the tree are unused.           *)
Init ==
    /\ nodes = {Root}
    /\ assigned = [p \in Paths |-> IF p = Root THEN DefaultLevel ELSE NoLevel]
    /\ level = [p \in Paths |-> DefaultLevel]
    /\ system = DefaultSystem
    /\ loggerSystem = [p \in Paths |-> DefaultSystem]
    /\ loggerName = [p \in Paths |-> <<>>]
    /\ detached = FALSE
    /\ crashed = FALSE
    /\ thread = [t \in Threads |-> Idle]

-----------------------------------------------------------------------------
(* LoggerTreeNode::hasAssignedLevel: the node's assignedLevel is set. *)
HasAssignedLevel(q) == assigned[q] # NoLevel

(* LoggerTreeNode::setAssignedLevel(level): a new assigned level for p. *)
SetAssignedLevel(p, l) == [assigned EXCEPT ![p] = l]

(* Mutant: ConsoleLogger::getLevel and setLevel without the mutex. *)
LoggerFreeUnlocked(p) == TRUE

(* ConsoleLogger::getLevel and setLevel lock the logger's mutex: they      *)
(* proceed only when no thread is inside log on the logger of node p.     *)
LoggerFree(p) == \A t \in Threads : thread[t].node # p

(* The deepest node of the tree on the way to path p. *)
DeepestExisting(p) ==
    CHOOSE q \in Prefixes(p) \cap nodes :
        \A r \in Prefixes(p) \cap nodes : Len(r) <= Len(q)

(* Mutant: createLogger ignoring the parent's level. *)
CreatedLevelDefault(p) == DefaultLevel

(* LoggerFactory::createLogger: a new node's logger takes its parent's     *)
(* level.  addChildren creates the missing nodes top-down, so each takes   *)
(* the level of the deepest node that existed before.                      *)
CreatedLevel(p) == level[DeepestExisting(p)]

(* getLogger(name): an empty path returns the root's proxy; otherwise       *)
(* addChildren creates the missing nodes on the path, each with a fresh    *)
(* proxy, a logger of the current system named pathToName of its path,    *)
(* and no assigned level, and returns the proxy of the last one.           *)
GetLogger(n) ==
    LET p == NameToPath(n)
        new == Prefixes(p) \ nodes
    IN /\ new # {} => LoggerFree(DeepestExisting(p))
       /\ nodes' = nodes \cup new
       /\ level' = [q \in Paths |-> IF q \in new THEN CreatedLevel(p) ELSE level[q]]
       /\ assigned' = [q \in Paths |-> IF q \in new THEN NoLevel ELSE assigned[q]]
       /\ loggerSystem' = [q \in Paths |-> IF q \in new THEN system
                                                        ELSE loggerSystem[q]]
       /\ loggerName' = [q \in Paths |-> IF q \in new THEN PathToName(q)
                                                      ELSE loggerName[q]]
       /\ UNCHANGED <<system, detached, crashed, thread>>

(* Mutant: LevelSetter::visit descending through nodes with an assigned    *)
(* level.                                                                  *)
ReachedThroughAll(p, d) == TRUE

(* LevelSetter, visiting the subtree below p, sets d's level unless d or a *)
(* node between p and d has an assigned level (visit returns false there). *)
ReachedBy(p, d) ==
    \A q \in nodes : IsStrictPrefix(p, q) /\ IsPrefix(q, d) => ~HasAssignedLevel(q)

(* TreeLevelUpdater::call for the proxy of node p: set p's logger level    *)
(* and assigned level, then propagate with a LevelSetter.                  *)
SetLevel(p, l) ==
    LET set == {p} \cup {q \in nodes : IsStrictPrefix(p, q) /\ ReachedBy(p, q)}
    IN /\ p \in nodes
       /\ \A q \in set : LoggerFree(q)
       /\ level' = [q \in Paths |-> IF q \in set THEN l ELSE level[q]]
       /\ assigned' = SetAssignedLevel(p, l)
       /\ UNCHANGED <<nodes, system, loggerSystem, loggerName, detached, crashed,
                      thread>>

(* The same callback on a detached proxy: treeNode.lock() yields an empty  *)
(* pointer, which call() dereferences.                                     *)
SetLevelDetached ==
    /\ detached
    /\ crashed' = TRUE
    /\ UNCHANGED <<nodes, assigned, level, system, loggerSystem, loggerName,
                   detached, thread>>

(* reconfigure(level): the root gets the level, assigned too; the          *)
(* ReconfigurationVisitor sets every node's level and overwrites every     *)
(* assigned level.                                                         *)
Reconfigure(l) ==
    /\ \A q \in nodes : LoggerFree(q)
    /\ level' = [q \in Paths |-> IF q \in nodes THEN l ELSE level[q]]
    /\ assigned' = [q \in Paths |-> IF q = Root \/ (q \in nodes /\ HasAssignedLevel(q))
                                     THEN l ELSE assigned[q]]
    /\ UNCHANGED <<nodes, system, loggerSystem, loggerName, detached, crashed,
                   thread>>

(* ReselectVisitor::visit replaces the node's logger and returns true:     *)
(* LoggerTreeNode::visit descends below every node it visits.              *)
ReselectDescends(q) == TRUE

(* The children of node p in the tree. *)
ChildrenOf(p) == {c \in nodes : IsStrictPrefix(p, c) /\ Len(c) = Len(p) + 1}

(* LoggerTreeNode::visit(visitor, p): each child of p is passed to the     *)
(* visitor and, when visit returns true, visited in turn.  The node p      *)
(* itself is not passed to the visitor.                                    *)
RECURSIVE ReselectVisit(_)
ReselectVisit(p) ==
    UNION {{c} \cup (IF ReselectDescends(c) THEN ReselectVisit(c) ELSE {}) :
           c \in ChildrenOf(p)}

(* Mutant: reselectLoggingSystem relying on the visitor for the root too. *)
ReselectedNoRoot == ReselectVisit(Root)

(* The nodes whose logger reselectLoggingSystem replaces: the root, by its *)
(* own code before the visit, and what the ReselectVisitor reaches.        *)
Reselected == {Root} \cup ReselectVisit(Root)

(* reselectLoggingSystem(name): every node's proxy gets a logger of the    *)
(* new system, with the level its old logger had: the root's is created    *)
(* with the name "", the others by the ReselectVisitor with pathToName of  *)
(* the path visit passes.  Reading the old logger's level waits for its  *)
(* mutex.                                                                  *)
ReselectLoggingSystem(s) ==
    /\ \A q \in Reselected \cap nodes : LoggerFree(q)
    /\ system' = s
    /\ loggerSystem' = [q \in Paths |->
                          IF q \in Reselected \cap nodes THEN s ELSE loggerSystem[q]]
    /\ loggerName' = [q \in Paths |->
                        IF q \in Reselected \cap nodes THEN PathToName(q)
                        ELSE loggerName[q]]
    /\ UNCHANGED <<nodes, assigned, level, detached, crashed, thread>>

(* Mutant: clearKnownLoggers dropping the root node as well. *)
ClearAllLoggers ==
    /\ nodes' = {}
    /\ \E held \in BOOLEAN : detached' = (detached \/ (held /\ nodes # {Root}))
    /\ assigned' = [q \in Paths |-> NoLevel]
    /\ level' = [q \in Paths |-> DefaultLevel]
    /\ loggerSystem' = [q \in Paths |-> system]
    /\ loggerName' = [q \in Paths |-> <<>>]
    /\ thread' = [t \in Threads |-> [thread[t] EXCEPT !.node = NoNode]]
    /\ UNCHANGED <<system, crashed>>

(* clearKnownLoggers(): the root's children map is cleared; the dropped    *)
(* nodes are freed and the proxies handed out for them are detached.  The  *)
(* entries of the freed nodes are reset: nothing reads them again.  A     *)
(* thread inside log keeps its logger, which no node owns any more.        *)
ClearKnownLoggers ==
    /\ nodes' = {Root}
    /\ \E held \in BOOLEAN : detached' = (detached \/ (held /\ nodes # {Root}))
    /\ assigned' = [q \in Paths |-> IF q = Root THEN assigned[q] ELSE NoLevel]
    /\ level' = [q \in Paths |-> IF q = Root THEN level[q] ELSE DefaultLevel]
    /\ loggerSystem' = [q \in Paths |-> IF q = Root THEN loggerSystem[q] ELSE system]
    /\ loggerName' = [q \in Paths |-> IF q = Root THEN loggerName[q] ELSE <<>>]
    /\ thread' = [t \in Threads |->
                    IF thread[t].node = Root THEN thread[t]
                    ELSE [thread[t] EXCEPT !.node = NoNode]]
    /\ UNCHANGED <<system, crashed>>

(* ConsoleLogger::log(level, msg) through the proxy of node p: lock the  *)
(* logger's mutex and test isEnabledFor; a disabled message unlocks at     *)
(* once and changes nothing.                                               *)
Log(t, p, l) ==
    /\ thread[t].pc = "idle" /\ p \in nodes /\ LoggerFree(p)
    /\ IsEnabledFor(l, level[p])
    /\ thread' = [thread EXCEPT ![t] = [pc |-> "header", node |-> p, lvl |-> l]]
    /\ UNCHANGED <<nodes, assigned, level, system, loggerSystem, loggerName,
                   detached, crashed>>

(* printHeader: time, the logger's name and the level to cerr. *)
PrintHeader(t) ==
    /\ thread[t].pc = "header"
    /\ thread' = [thread EXCEPT ![t].pc = "body"]
    /\ UNCHANGED <<nodes, assigned, level, system, loggerSystem, loggerName,
                   detached, crashed>>

(* printBody: the message and endl; the scoped lock is released. *)
PrintBody(t) ==
    /\ thread[t].pc = "body"
    /\ thread' = [thread EXCEPT ![t] = Idle]
    /\ UNCHANGED <<nodes, assigned, level, system, loggerSystem, loggerName,
                   detached, crashed>>

-----------------------------------------------------------------------------
Next ==
    \/ \E n \in LoggerNames : GetLogger(n)
    \/ \E p \in Paths, l \in Levels : SetLevel(p, l)
    \/ SetLevelDetached
    \/ \E l \in Levels : Reconfigure(l)
    \/ \E s \in Systems : ReselectLoggingSystem(s)
    \/ ClearKnownLoggers
    \/ \E t \in Threads :
          \/ \E p \in Paths, l \in Levels : Log(t, p, l)
          \/ PrintHeader(t)
          \/ PrintBody(t)

Spec == Init /\ [][Next]_vars

-----------------------------------------------------------------------------
(* The level a node should have: the assigned level of the node itself or  *)
(* of its nearest ancestor with one (the root always has one).             *)
EffectiveLevel(p) ==
    LET withLevel == {q \in Prefixes(p) \cap nodes : assigned[q] # NoLevel}
    IN assigned[CHOOSE q \in withLevel : \A r \in withLevel : Len(r) <= Len(q)]

(* Every logger in the tree has the level it inherits: after any sequence  *)
(* of getLogger, setLevel, reconfigure, reselect and clear operations.     *)
LevelsInherited == \A p \in nodes : level[p] = EffectiveLevel(p)

(* Every logger of the tree is one of the selected logging system, at any *)
(* depth, after any sequence of getLogger, reselectLoggingSystem and       *)
(* clearKnownLoggers: reselectLoggingSystem replaces the root's logger by  *)
(* its own code, since LoggerTreeNode::visit never passes the node it     *)
(* starts from to the visitor, and every other node's through the          *)
(* ReselectVisitor recursion; getLogger creates new ones with the system  *)
(* current at that time.                                                   *)
LoggersUseCurrentSystem == \A p \in nodes : loggerSystem[p] = system

(* setLevel on any logger getLogger returned never dereferences a freed    *)
(* tree node.                                                              *)
NoDetachedProxyUse == ~crashed

(* getLogger(name) returns a logger called name: every logger in the tree *)
(* that getLogger can return for a name carries that name, whether the    *)
(* node was created by that call, as an intermediate node of a longer     *)
(* name, or given a new logger by reselectLoggingSystem.  Names with empty *)
(* components ("a.", ".") must survive the round trip through nameToPath  *)
(* and pathToName.                                                        *)
LoggerNamedAsRequested ==
    \A n \in LoggerNames : NameToPath(n) \in nodes => loggerName[NameToPath(n)] = n

(* A message is printed only while its level is enabled for the logger    *)
(* printing it: between the isEnabledFor test in ConsoleLogger::log and    *)
(* the end of printBody, no setLevel, reconfigure or createLogger of the  *)
(* factory changes that logger's level, however the factory's visitors    *)
(* interleave with the logging threads.                                    *)
PrintedWhileEnabled ==
    \A t \in Threads :
        thread[t].node # NoNode => IsEnabledFor(thread[t].lvl, level[thread[t].node])
=============================================================================
