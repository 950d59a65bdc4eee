----------------------------- MODULE DebugInfo -----------------------------
(***************************************************************************)
(* The debug information of the program: one compilation unit with its     *)
(* line table and its entries (DIEs).  All addresses in it are link-time   *)
(* addresses; the debugger adds and subtracts m_load_address.  The lookups *)
(* throw out_of_range where they find nothing, hence the operators Has...  *)
(***************************************************************************)
EXTENDS Integers

CONSTANTS
  CuLow, CuHigh,   \* DW_AT_low_pc and DW_AT_high_pc of the unit
  Rows,            \* addresses of the rows of the line table
  LineNo,          \* LineNo[r]: source line of row r
  Functions,       \* subprogram DIEs: [name, low, high]
  DataNames        \* names of the DIEs without DW_AT_low_pc

IsRowOf(r, pc)      == r <= pc /\ \A s \in Rows : s <= pc => s <= r
IsBehindRow(s, r)   == r < s /\ \A t \in Rows : r < t => s <= t

(***************************************************************************)
(* The line table covers the unit and ends with its end_sequence row, and  *)
(* a compiler gives the first instruction of each function a row.  (The    *)
(* conjuncts about IsRowOf and IsBehindRow hold of any finite table.)      *)
(***************************************************************************)
ASSUME DebugInfoAssumption ==
  /\ CuLow \in Int /\ CuHigh \in Int
  /\ \A r \in Rows : r \in Int /\ CuLow <= r /\ r < CuHigh
  /\ LineNo \in [Rows -> Nat]
  /\ \A f \in Functions : f.low \in Rows /\ f.high \in Int
  /\ \A pc \in CuLow .. CuHigh :
       (\E r \in Rows : r <= pc) => \E r \in Rows : IsRowOf(r, pc)
  /\ \A r \in Rows : \E s \in Rows \cup {CuHigh} : IsBehindRow(s, r)

\* line_table::find_address: the row with the highest address up to pc.
Row(pc) == CHOOSE r \in Rows : IsRowOf(r, pc)

\* get_line_entry_using_pc
HasLine(pc) == CuLow <= pc /\ pc < CuHigh /\ \E r \in Rows : r <= pc
LineAt(pc)  == LineNo[Row(pc)]

\* The row behind r (line_entry++).
RowAfter(r) == CHOOSE s \in Rows \cup {CuHigh} : IsBehindRow(s, r)

\* get_func_using_pc
Contains(f, pc) == f.low <= pc /\ pc < f.high
HasFunction(pc) ==
  CuLow <= pc /\ pc < CuHigh /\ \E f \in Functions : Contains(f, pc)
FunctionAt(pc)  == CHOOSE f \in Functions : Contains(f, pc)

\* (Mutant.  The loop does not end at the end of the function.)
RowsOnFrom(f) == {r \in Rows : Row(f.low) <= r}

\* step_over: every row from the one of the function's first line on.
RowsOf(f) == {r \in Rows : Row(f.low) <= r /\ r < f.high}

\* set_bp_at_func: the row behind the prologue of each function of that name.
BodyRows(name) ==
  {RowAfter(Row(f.low)) : f \in {g \in Functions : g.name = name}}

\* set_bp_at_source_line: the row whose address is the given line.  (For another
\* file, and where is_stmt is not set, the command does nothing, as for a line that
\* is no row's address.)
RowsForLine(line) == {r \in Rows : r = line}
=============================================================================
