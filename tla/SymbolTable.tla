---------------------------- MODULE SymbolTable -----------------------------
(***************************************************************************)
(* Symbol tables of the compiler (compiler/src/ts.c): the variables of one *)
(* function, each with its offset in the function's frame.                 *)
(***************************************************************************)
EXTENDS Integers, Sequences

\* SCALAR_SIZE; an array has the number of its cells.
ScalarSize == -1

\* The pointer NULL, and st_empty().
NullTable == [live |-> FALSE, symbols |-> << >>, mem_offset |-> 0]
EmptyTable == [live |-> TRUE, symbols |-> << >>, mem_offset |-> 0]

Has(st, id) == \E i \in DOMAIN st.symbols : st.symbols[i].identifier = id

\* st_find, of a symbol that the table has.
Find(st, id) ==
    st.symbols[CHOOSE i \in DOMAIN st.symbols : st.symbols[i].identifier = id]

\* st_create_symbol, of one that it has not.
Create(st, id, size) ==
    [st EXCEPT !.symbols = Append(@, [identifier |-> id, base_adr |-> st.mem_offset, size |-> size]),
               !.mem_offset = @ + (IF size = ScalarSize THEN 1 ELSE size)]

IsScalar(st, id) == Has(st, id) /\ Find(st, id).size = ScalarSize
IsArray(st, id) == Has(st, id) /\ Find(st, id).size # ScalarSize
=============================================================================
