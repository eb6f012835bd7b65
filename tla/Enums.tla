-------------------------------- MODULE Enums --------------------------------
(***************************************************************************)
(* The names of enumeration values (src/enums.c): records that are in two    *)
(* trees, by code and by name, from the time the library is loaded (main.c)  *)
(* to the exit of the process.  Memory comes from the allocator of the Lua   *)
(* state (utils.c) and may run out at any allocation; luaL_error() then      *)
(* leaves the function at once.                                             *)
(*                                                                          *)
(* A record is the index of its entry in Table, for none is made twice: when *)
(* the library is opened again, malloc_init() raises an error before.  The   *)
(* trees are the sets that RedBlack shows them to be.                       *)
(***************************************************************************)
EXTENDS Integers, Sequences, FiniteSets, Pointers

CONSTANT Table   \* the entries to add: Enumerations, or any other table

ASSUME TableAssumption ==
  Table \in Seq([domain : Nat, code : 0 .. 999, str : STRING])

-----------------------------------------------------------------------------
(* The enumerations (enums.h), in the order moonagents_open_enums adds them. *)
TEXT_MODE == 0
BG_COLOR == 1
FG_COLOR == 2
Domains == {TEXT_MODE, BG_COLOR, FG_COLOR}

Modes == <<"normal", "bold", "faint", "italic", "underline", "blink", "inverted">>
ModeCodes == <<22, 1, 2, 3, 4, 5, 7>>
Colors ==
  <<"black", "red", "green", "yellow", "blue", "magenta", "cyan", "white",
    "bright black", "bright red", "bright green", "bright yellow", "bright blue",
    "bright magenta", "bright cyan", "bright white">>

Record(domain, code, str) == [domain |-> domain, code |-> code, str |-> str]

ColorRecords(domain, base, bright) ==
  [i \in 1 .. Len(Colors) |->
     Record(domain, IF i <= 8 THEN base + i - 1 ELSE bright + i - 9, Colors[i])]

Enumerations ==
  [i \in 1 .. Len(Modes) |-> Record(TEXT_MODE, ModeCodes[i], Modes[i])]
  \o ColorRecords(BG_COLOR, 40, 100) \o ColorRecords(FG_COLOR, 30, 90)

Recs == 1 .. Len(Table)

-----------------------------------------------------------------------------
VARIABLES
  stage,       \* "unloaded", "adding", "loaded" or "failed", "exiting", "exited"
  adding,      \* the entry of Table that is added
  codeTree, stringTree,
  heap         \* what is allocated: records, and their copies of the name

enumsVars == <<stage, adding, codeTree, stringTree, heap>>

EnumsInit ==
  /\ stage = "unloaded" /\ adding = 1
  /\ codeTree = {} /\ stringTree = {} /\ heap = {}

RecordOf(i) == <<"record", i>>
NameOf(i) == <<"name", i>>

(* cmp_code() compares the domains, then the codes (bound: below 1000).      *)
CodeKey(domain, code) == 1000 * domain + code
ByCode == INSTANCE OrderedSet
            WITH content <- codeTree, Node <- Recs,
                 Key <- [i \in Recs |-> CodeKey(Table[i].domain, Table[i].code)]

code_search(domain, code) == ByCode!Least(ByCode!At(codeTree, CodeKey(domain, code)))
code_first(domain, code) == ByCode!Least(ByCode!From(codeTree, CodeKey(domain, code)))
code_next(i) == ByCode!Least(ByCode!Above(codeTree, CodeKey(Table[i].domain, Table[i].code)))

(* cmp_str() is 0 for equal domains and names; no search is for more.        *)
str_search(domain, str) ==
  LET found == {i \in stringTree : Table[i].domain = domain /\ Table[i].str = str}
  IN IF found = {} THEN NULL ELSE CHOOSE i \in found : TRUE

-----------------------------------------------------------------------------
(* luaopen_moonagents().                                                    *)
Open ==
  /\ stage = "unloaded"
  /\ stage' = "adding"
  /\ UNCHANGED <<adding, codeTree, stringTree, heap>>

(* enums_new().  A name or code that is there is an error.                  *)
NewByCodeOnly ==  \* a wrong variant: the name is not inserted
  /\ stage = "adding" /\ adding \in Recs
  /\ codeTree' = codeTree \cup {adding}
  /\ heap' = heap \cup {RecordOf(adding), NameOf(adding)}
  /\ adding' = adding + 1
  /\ UNCHANGED <<stage, stringTree>>

New ==
  /\ stage = "adding" /\ adding \in Recs
  /\ LET new == Table[adding]
     IN IF code_search(new.domain, new.code) # NULL \/ str_search(new.domain, new.str) # NULL
        THEN stage' = "failed" /\ UNCHANGED <<adding, codeTree, stringTree, heap>>
        ELSE /\ codeTree' = codeTree \cup {adding} /\ stringTree' = stringTree \cup {adding}
             /\ heap' = heap \cup {RecordOf(adding), NameOf(adding)}
             /\ adding' = adding + 1 /\ UNCHANGED stage

(* Malloc() fails, or Strdup(): nobody knows of the record any more.         *)
OutOfMemory ==
  /\ stage = "adding" /\ adding \in Recs
  /\ heap' \in {heap, heap \cup {RecordOf(adding)}}
  /\ stage' = "failed"
  /\ UNCHANGED <<adding, codeTree, stringTree>>

(* The rest of luaopen_moonagents(); engine.lua may fail to load.            *)
Opened ==
  /\ stage = "adding" /\ adding \notin Recs
  /\ stage' \in {"loaded", "failed"}
  /\ UNCHANGED <<adding, codeTree, stringTree, heap>>

(* AtExit(), registered before the first record is made: enums_free_all().   *)
Exit ==
  /\ stage \in {"loaded", "failed"}
  /\ stage' = "exiting"
  /\ UNCHANGED <<adding, codeTree, stringTree, heap>>

FreeKeepingCode ==  \* a wrong variant: the record stays in the tree of codes
  LET rec == code_first(0, 0)
  IN /\ stage = "exiting" /\ rec # NULL
     /\ stringTree' = stringTree \ {rec}
     /\ heap' = heap \ {RecordOf(rec), NameOf(rec)}
     /\ UNCHANGED <<stage, adding, codeTree>>

Free ==
  LET rec == code_first(0, 0)
      found(i) == IF i = rec THEN {rec} ELSE {}
  IN /\ stage = "exiting" /\ rec # NULL
     /\ codeTree' = codeTree \ found(code_search(Table[rec].domain, Table[rec].code))
     /\ stringTree' = stringTree \ found(str_search(Table[rec].domain, Table[rec].str))
     /\ heap' = heap \ {RecordOf(rec), NameOf(rec)}
     /\ UNCHANGED <<stage, adding>>

Exited ==
  /\ stage = "exiting" /\ code_first(0, 0) = NULL
  /\ stage' = "exited"
  /\ UNCHANGED <<adding, codeTree, stringTree, heap>>

EnumsNext ==
  \/ Open \/ New \/ OutOfMemory \/ Opened
  \/ Exit \/ Free \/ Exited

-----------------------------------------------------------------------------
(* What the library asks of the enumerations: enums_check(), which raises an *)
(* error if it does not know the name, enums_push(), enums_values().         *)
enums_check(domain, str) == Table[str_search(domain, str)].code
enums_push(domain, code) == Table[code_search(domain, code)].str

enums_values_short(domain) ==  \* a wrong variant: the last record of all is not reached
  LET values[i \in Recs \cup {NULL}] ==
        IF i = NULL \/ code_next(i) = NULL THEN <<>>
        ELSE (IF Table[i].domain = domain THEN <<Table[i].str>> ELSE <<>>) \o values[code_next(i)]
  IN values[code_first(domain, 0)]

enums_values(domain) ==
  LET values[i \in Recs \cup {NULL}] ==
        IF i = NULL THEN <<>>
        ELSE (IF Table[i].domain = domain THEN <<Table[i].str>> ELSE <<>>) \o values[code_next(i)]
  IN values[code_first(domain, 0)]

(* enums_checklist(): the codes of a list of names, or nothing.              *)
enums_checklist(domain, list) ==
  IF \E n \in DOMAIN list : str_search(domain, list[n]) = NULL THEN <<>>
  ELSE [n \in DOMAIN list |-> enums_check(domain, list[n])]

-----------------------------------------------------------------------------
(* The two trees hold the same records, none that was freed, and what is     *)
(* allocated but the record of a failed Strdup() is in them: enums_new() and *)
(* enums_free() keep them together, also when the former fails halfway.      *)
TreesAgree ==
  /\ codeTree = stringTree
  /\ {RecordOf(i) : i \in codeTree} \cup {NameOf(i) : i \in codeTree} \subseteq heap
  /\ heap \subseteq {RecordOf(adding)} \cup {RecordOf(i) : i \in codeTree}
                     \cup {NameOf(i) : i \in codeTree}

(* Once the library is loaded every enumeration maps names and codes to each *)
(* other one to one, and enum() lists all names of one, by their codes: the  *)
(* walk that starts in a domain goes through all that follow.               *)
NamesAndCodes ==
  stage = "loaded" =>
    \A d \in Domains :
      LET names == {Table[i].str : i \in {j \in Recs : Table[j].domain = d}}
          values == enums_values(d)
      IN /\ \A s \in names : enums_push(d, enums_check(d, s)) = s
         /\ Len(values) = Cardinality(names) /\ names = {values[n] : n \in 1 .. Len(values)}
         /\ \A n \in 1 .. Len(values) - 1 :
              enums_check(d, values[n]) < enums_check(d, values[n + 1])
         /\ enums_checklist(d, values) = [n \in 1 .. Len(values) |-> enums_check(d, values[n])]

(* At the exit all records are freed, of whatever was added before something *)
(* failed; only one whose name could not be allocated is left.               *)
ExitFreesAll ==
  stage = "exiting" ~> stage = "exited" /\ codeTree = {} /\ heap \subseteq {RecordOf(adding)}

=============================================================================
