-------------------------- MODULE EnvironmentSource --------------------------
(***************************************************************************)
(* rsc::config::EnvironmentVariableSource (src/src/rsc/config/             *)
(* Environment.cpp): the configuration source made of the environment      *)
(* variables whose names start with a prefix.  The first getMatches call   *)
(* scans environ and caches the matches; provideOptions hands each cached  *)
(* match to the handler with its transformed name split at '_'.            *)
(*                                                                         *)
(* Names are sequences of characters of a small alphabet; environ is the   *)
(* array of <<name, value>> entries, in the order environment_iterator     *)
(* visits them.  The process may call setenv and unsetenv between          *)
(* provideOptions calls.                                                   *)
(***************************************************************************)
EXTENDS Naturals, SequencesExt, Functions

CONSTANTS
    Names,      \* environment variable names (sequences of characters)
    Values,     \* their values
    Prefix,     \* EnvironmentVariableSource::prefix
    ToLower,    \* ::tolower on the alphabet of Names
    MaxChanges, \* bound on setenv / unsetenv calls
    MaxCalls    \* bound on provideOptions calls

ASSUME /\ Prefix \in Seq(DOMAIN ToLower)
       /\ \A n \in Names : n \in Seq(DOMAIN ToLower)
       /\ MaxChanges \in Nat /\ MaxCalls \in Nat

(* Every array of distinct variables: the environments a process starts  *)
(* with.                                                                   *)
Environments ==
    UNION {{[k \in DOMAIN o |-> <<o[k], val[o[k]]>>] : val \in [Range(o) -> Values]}
               : o \in UNION {SetToSeqs(D) : D \in SUBSET Names}}

VarNames(env) == {env[k][1] : k \in DOMAIN env}

(* getenv: the value of a variable that is set. *)
IndexOf(env, n) == CHOOSE k \in DOMAIN env : env[k][1] = n
ValueOf(env, n) == env[IndexOf(env, n)][2]

VARIABLES
    environ,     \* the process environment
    stripPrefix, \* EnvironmentVariableSource::stripPrefix
    cached,      \* EnvironmentVariableSource::matches is set
    matches,     \* the cached Matches
    changes,     \* setenv / unsetenv calls so far
    snapshot,    \* history: environ when getMatches first scanned it
    handled      \* history: the options of each provideOptions call

vars == <<environ, stripPrefix, cached, matches, changes, snapshot, handled>>

(* A cached match never has an empty transformed name. *)
Matches == Seq([rawName : Names,
                transformedName : Seq(DOMAIN ToLower \cup Range(ToLower)) \ {<<>>},
                value : Values])

TypeOK ==
    /\ environ \in Environments /\ snapshot \in Environments \cup {<<>>}
    /\ stripPrefix \in BOOLEAN /\ cached \in BOOLEAN
    /\ matches \in Matches
    /\ changes \in 0..MaxChanges
    /\ Len(handled) <= MaxCalls

(* EnvironmentVariableSource(prefix, stripPrefix): nothing scanned yet. *)
Init ==
    /\ environ \in Environments
    /\ stripPrefix \in BOOLEAN
    /\ cached = FALSE /\ matches = <<>>
    /\ changes = 0
    /\ snapshot = <<>> /\ handled = <<>>

-----------------------------------------------------------------------------
(* transformName(name, prefix, stripPrefix): "" unless name starts with    *)
(* prefix; otherwise name, without the prefix if stripPrefix, lower-cased. *)
TransformName(n) ==
    IF IsPrefix(Prefix, n)
    THEN LET start == IF stripPrefix THEN Len(Prefix) ELSE 0
         IN [i \in 1..(Len(n) - start) |-> ToLower[n[start + i]]]
    ELSE <<>>

(* Mutant: getMatches without its `if (name.empty()) continue`. *)
ScanNoSkip ==
    [k \in DOMAIN environ |->
        [rawName |-> environ[k][1],
         transformedName |-> TransformName(environ[k][1]),
         value |-> environ[k][2]]]

(* The scan of getMatches over environ in the iterator's order: a variable *)
(* whose transformed name is empty is skipped.                             *)
Scan ==
    SelectSeq([k \in DOMAIN environ |->
                  [rawName |-> environ[k][1],
                   transformedName |-> TransformName(environ[k][1]),
                   value |-> environ[k][2]]],
              LAMBDA m : m.transformedName # <<>>)

GetMatches == IF cached THEN matches ELSE Scan

(* boost::split(key, name, is_any_of("_")): the pieces between the '_'s,   *)
(* empty pieces included.                                                  *)
RECURSIVE SplitAtUnderscore(_)
SplitAtUnderscore(s) ==
    LET seps == {i \in DOMAIN s : s[i] = "_"}
    IN IF seps = {} THEN <<s>>
       ELSE LET i == Min(seps)
            IN <<SubSeq(s, 1, i - 1)>>
               \o SplitAtUnderscore(SubSeq(s, i + 1, Len(s)))

(* provideOptions(handler): getMatches, then one handleOption per match.   *)
ProvideOptions ==
    /\ Len(handled) < MaxCalls
    /\ LET ms == GetMatches
       IN /\ matches' = ms
          /\ handled' = Append(handled,
                [i \in DOMAIN ms |->
                    <<SplitAtUnderscore(ms[i].transformedName), ms[i].value>>])
    /\ cached' = TRUE
    /\ snapshot' = IF cached THEN snapshot ELSE environ
    /\ UNCHANGED <<environ, stripPrefix, changes>>

(* Another part of the process calls setenv, which overwrites a variable *)
(* in place or appends a new one, or unsetenv, which removes it and keeps  *)
(* the order of the rest.                                                  *)
Setenv(n, v) ==
    /\ changes < MaxChanges
    /\ environ' = IF n \in VarNames(environ)
                  THEN [k \in DOMAIN environ |->
                           IF environ[k][1] = n THEN <<n, v>> ELSE environ[k]]
                  ELSE Append(environ, <<n, v>>)
    /\ changes' = changes + 1
    /\ UNCHANGED <<stripPrefix, cached, matches, snapshot, handled>>

Unsetenv(n) ==
    /\ changes < MaxChanges /\ n \in VarNames(environ)
    /\ environ' = SelectSeq(environ, LAMBDA e : e[1] # n)
    /\ changes' = changes + 1
    /\ UNCHANGED <<stripPrefix, cached, matches, snapshot, handled>>

Next ==
    \/ ProvideOptions
    \/ \E n \in Names, v \in Values : Setenv(n, v)
    \/ \E n \in Names : Unsetenv(n)

Spec == Init /\ [][Next]_vars

-----------------------------------------------------------------------------
(* The options a scan of env yields, stated directly over the variables:  *)
(* every variable whose name starts with the prefix, the prefix stripped   *)
(* if stripPrefix (a variable equal to the prefix then has no option), the *)
(* rest lower-cased as transformName does, and cut at each '_' into the    *)
(* key's components.  The lower-casing is the code's; the doc comment of   *)
(* configure() (Configuration.h:105-107) says RSC_TEST is passed "as just  *)
(* TEST", which the code does not do.                                      *)
Processed(env) ==
    {n \in VarNames(env) : IsPrefix(Prefix, n)
                        /\ (stripPrefix => Len(n) > Len(Prefix))}

OptionName(n) ==
    LET drop == IF stripPrefix THEN Len(Prefix) ELSE 0
    IN [i \in 1..(Len(n) - drop) |-> ToLower[n[drop + i]]]

KeyOf(t) ==
    LET cuts == <<0>> \o SetToSortSeq({i \in DOMAIN t : t[i] = "_"}, <)
                     \o <<Len(t) + 1>>
    IN [k \in 1..(Len(cuts) - 1) |-> SubSeq(t, cuts[k] + 1, cuts[k + 1] - 1)]

(* The processed variables in the order environ lists them. *)
ProcessedInOrder(env) ==
    [k \in 1..Cardinality(Processed(env)) |->
        LET before(n) == Cardinality({j \in DOMAIN env : j <= IndexOf(env, n)
                                                      /\ env[j][1] \in Processed(env)})
        IN CHOOSE n \in Processed(env) : before(n) = k]

=============================================================================
