------------------------------ MODULE RsrcTable ------------------------------
(***************************************************************************)
(* The resource table of kernel/resource.c: the array rmap, whose unused   *)
(* entries are chained into a free list, and the lists of the resources    *)
(* that each team owns.                                                    *)
(***************************************************************************)
EXTENDS Integers, Sequences, FiniteSets, SequencesExt

CONSTANTS
    rmax,       \* entries of the table; entry 0 is never handed out
    Block,      \* the resource_t blocks
    Null,       \* null_resource, and a NULL owner
    Types,      \* the resource types other than RSRC_NONE
    Teams

ASSUME RsrcTableAssumption ==
    /\ rmax \in Nat \ {0, 1}
    /\ Null \notin Block \cup Teams
    /\ "RSRC_NONE" \notin Types

VARIABLES
    rmap,       \* rmap[i] = [resource, next]
    rfree,
    rsrc,       \* rsrc[b] = [id, type, owner], the fields of block b
    resources,  \* resources[m]: the list of the resources of team m
    panicked

tableVars == <<rmap, rfree, rsrc, resources, panicked>>

Id == 0 .. rmax - 1

TableTypeOK ==
    /\ rmap \in [Id -> [resource : Block \cup {Null}, next : Id]]
    /\ rfree \in Id
    /\ rsrc \in [Block -> [id : Id, type : Types \cup {"RSRC_NONE"}, owner : Teams \cup {Null}]]
    /\ resources \in [Teams -> Seq(Block)]
    /\ panicked \in BOOLEAN

bound(b) == rsrc[b].type # "RSRC_NONE"

-----------------------------------------------------------------------------
rsrc_init ==
    /\ rmap = [i \in Id |-> [resource |-> Null, next |-> (i + 1) % rmax]]
    /\ rfree = 1
    /\ rsrc = [b \in Block |-> [id |-> 0, type |-> "RSRC_NONE", owner |-> Null]]
    /\ resources = [m \in Teams |-> << >>]
    /\ panicked = FALSE

\* Mutant: the type is not looked at.
rsrc_find_untyped(type, i) == rmap[i].resource

rsrc_find(type, i) ==
    LET b == rmap[i].resource
    IN  IF b # Null /\ rsrc[b].type = type THEN b ELSE Null

\* list_add_tail() and list_remove() on the list of team m, if there is one.
chain(lists, m, b) == IF m = Null THEN lists ELSE [lists EXCEPT ![m] = Append(@, b)]
unchain(lists, m, b) == IF m = Null THEN lists ELSE [lists EXCEPT ![m] = Remove(@, b)]

rsrc_bind(b, type, m) ==
    /\ ~panicked /\ ~bound(b)
    /\ rfree # 0
    /\ rfree' = rmap[rfree].next
    /\ rmap' = [rmap EXCEPT ![rfree].resource = b]
    /\ rsrc' = [rsrc EXCEPT ![b] = [id |-> rfree, type |-> type, owner |-> m]]
    /\ resources' = chain(resources, m, b)
    /\ UNCHANGED panicked

\* Mutant: the last id is never used.
rsrc_exhausted_early ==
    /\ ~panicked /\ rmap[rfree].next = 0
    /\ panicked' = TRUE
    /\ UNCHANGED <<rmap, rfree, rsrc, resources>>

\* panic("resource exhaustion")
rsrc_exhausted ==
    /\ ~panicked /\ rfree = 0
    /\ panicked' = TRUE
    /\ UNCHANGED <<rmap, rfree, rsrc, resources>>

\* Mutant: the resource stays on the list of its former owner.
rsrc_set_owner_twice(b, m) ==
    /\ ~panicked /\ bound(b)
    /\ resources' = chain(resources, m, b)
    /\ rsrc' = [rsrc EXCEPT ![b].owner = m]
    /\ UNCHANGED <<rmap, rfree, panicked>>

rsrc_set_owner(b, m) ==
    /\ ~panicked /\ bound(b)
    /\ resources' = chain(unchain(resources, rsrc[b].owner, b), m, b)
    /\ rsrc' = [rsrc EXCEPT ![b].owner = m]
    /\ UNCHANGED <<rmap, rfree, panicked>>

\* Mutant: the entry is not linked into the free list.
rsrc_release_no_link(b) ==
    /\ ~panicked /\ bound(b)
    /\ resources' = unchain(resources, rsrc[b].owner, b)
    /\ rmap' = [rmap EXCEPT ![rsrc[b].id].resource = Null]
    /\ rfree' = rsrc[b].id
    /\ rsrc' = [rsrc EXCEPT ![b].type = "RSRC_NONE", ![b].id = 0]
    /\ UNCHANGED panicked

\* The owner field of the block keeps its value.
rsrc_release(b) ==
    /\ ~panicked /\ bound(b)
    /\ resources' = unchain(resources, rsrc[b].owner, b)
    /\ rmap' = [rmap EXCEPT ![rsrc[b].id] = [resource |-> Null, next |-> rfree]]
    /\ rfree' = rsrc[b].id
    /\ rsrc' = [rsrc EXCEPT ![b].type = "RSRC_NONE", ![b].id = 0]
    /\ UNCHANGED panicked

\* The head of the loop of team_destroy(): list_remove_head(), owner = NULL.
team_disown(m) ==
    /\ ~panicked /\ resources[m] # << >>
    /\ rsrc' = [rsrc EXCEPT ![Head(resources[m])].owner = Null]
    /\ resources' = [resources EXCEPT ![m] = Tail(@)]
    /\ UNCHANGED <<rmap, rfree, panicked>>

-----------------------------------------------------------------------------
TableNext ==
    \/ \E b \in Block, type \in Types, m \in Teams \cup {Null} : rsrc_bind(b, type, m)
    \/ rsrc_exhausted
    \/ \E b \in Block, m \in Teams \cup {Null} : rsrc_set_owner(b, m)
    \/ \E b \in Block : rsrc_release(b)
    \/ \E m \in Teams : team_disown(m)

TableSpec == rsrc_init /\ [][TableNext]_tableVars

-----------------------------------------------------------------------------
(* Properties *)

\* free_list[n]: the first n entries of the free list.
free_list[n \in 0 .. rmax] ==
    IF n = 0 THEN << >>
    ELSE LET l == free_list[n - 1]
             e == IF l = << >> THEN rfree ELSE rmap[Last(l)].next
         IN  IF n > Len(l) + 1 \/ e = 0 THEN l ELSE Append(l, e)

\* The free list visits every entry that names nothing, each of them once, and then
\* ends: no id is lost, and none can be handed out twice.
FreeListExact ==
    LET l == free_list[rmax] IN
    /\ IsInjective(l)
    /\ ToSet(l) = {i \in Id \ {0} : rmap[i].resource = Null}
    /\ l # << >> => rmap[Last(l)].next = 0

\* The table and the blocks agree: an id in the table leads to the block that
\* carries it, and rsrc_find() returns a block for its own id and type only.
FindIsRight ==
    TableTypeOK /\ \A b \in Block, i \in Id, type \in Types :
        rsrc_find(type, i) = b <=> rsrc[b].type = type /\ rsrc[b].id = i

\* The list of a team holds the bound resources that name it as their owner, each
\* of them once: what team_destroy() walks is complete.
OwnerLists ==
    \A m \in Teams :
        /\ IsInjective(resources[m])
        /\ ToSet(resources[m]) = {b \in Block : bound(b) /\ rsrc[b].owner = m}

\* The table implements a pool of ids that refuses a request only when every id is
\* in use.
Pool == INSTANCE IdPool WITH
    Ids <- Id \ {0}, Things <- Block,
    names <- {<<rsrc[b].id, b>> : b \in {c \in Block : bound(c)}},
    refused <- panicked

ImplementsIdPool == Pool!PoolSpec
=============================================================================
