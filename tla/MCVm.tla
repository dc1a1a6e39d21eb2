--------------------------------- MODULE MCVm ---------------------------------
(* Virtual memory, for model checking: the boot team and one that it spawns. *)
EXTENDS Vm
CONSTANTS a1, a2

\* What area i of address space a is, and where the areas of its page group are.
Role(a, i) ==
    [virt |-> vm.area[i].virt,
     length |-> vm.area[i].length,
     size |-> Len(vm.group[vm.area[i].pg].pages),
     physmap |-> vm.group[vm.area[i].pg].physmap,
     shared |-> {<<x[1], vm.area[x[2]].virt>> : x \in
                    {y \in Aspace \X AreaId : /\ y[2] \in Range(vm.areas[y[1]])
                                              /\ vm.area[y[2]].pg = vm.area[i].pg}},
     uses |-> <<i = vm.heap[a], i \in mine[a], i = exec[a].area, i = exec[a].sarea,
                \E t \in threads : t.stack = i>>]

\* A state up to the names of pages, addresses, areas and page groups.  No step
\* depends on them, and as long as the properties hold, which are part of the view,
\* two states with the same view differ in these names only.
View ==
    <<Len(vm.free), Len(vm.freev) + vm.nextmem,
      [a \in Aspace |-> {Role(a, i) : i \in Range(vm.areas[a])}],
      [a \in Aspace |-> <<Cardinality(ThreadsOf(a)), Cardinality({t \in ThreadsOf(a) : t.stack = 0}), exec[a].pc>>],
      halt, PagesOwnedOnce, MapsExact, GroupRefcount, KernelMapsOK>>
===============================================================================
