----------------------------- MODULE DeviceTree -----------------------------
(***************************************************************************)
(* The flattened device tree as src/sm/machine/fdt.c and                   *)
(* src/sm/devices/uart.c read it at boot, and as init.c filters it for the *)
(* operating system.                                                       *)
(*                                                                         *)
(* A tree is the sequence of its lexemes.  A property's value is a         *)
(* sequence of cells or of strings; a cell holds a digit in base Radix     *)
(* (2^32 in the code).  A scan is a fold over the lexemes: the stack has   *)
(* one frame per active call of fdt_scan_helper, and a frame owns the one  *)
(* `child` record that all the children of its node share.  A node is      *)
(* known to the callbacks by the address of that record, here its depth.   *)
(***************************************************************************)
EXTENDS Integers, Sequences, FiniteSets, SequencesExt

CONSTANTS Radix, NumHarts, Self

IRQ_S_EXT == 9
IRQ_M_EXT == 11

Lexeme(kind, name, cells, strs) == [kind |-> kind, name |-> name, cells |-> cells, strs |-> strs]
FDT_NOP == Lexeme("nop", "", <<>>, <<>>)

(***************************************************************************)
(* The state of a scan.  Callbacks take the whole of it (they may write    *)
(* lexemes), the node, and for `prop` the position of the lexeme.  ok is   *)
(* FALSE once an assertion has failed, after which nothing happens.        *)
(***************************************************************************)
Frame(start) == [child |-> [address |-> 2, size |-> 1], last |-> FALSE, start |-> start]

\* The node whose lexemes the innermost call reads, with its parent's cell counts.
NodeOf(stack) ==
  [at     |-> Len(stack),
   parent |-> IF Len(stack) > 2 THEN stack[Len(stack) - 2].child ELSE [address |-> 0, size |-> 0]]

SetCells(stack, lexeme) ==
  LET d == Len(stack)
  IN  CASE d > 1 /\ lexeme.name = "#address-cells" -> [stack EXCEPT ![d - 1].child.address = lexeme.cells[1]]
        [] d > 1 /\ lexeme.name = "#size-cells"    -> [stack EXCEPT ![d - 1].child.size = lexeme.cells[1]]
        [] OTHER                                   -> stack

Require(m, condition) == [m EXCEPT !.ok = @ /\ condition]

Number(digits) == FoldLeft(LAMBDA n, c : Radix * n + c, 0, digits)
fdt_get_address(node, cells) == Number(SubSeq(cells, 1, node.parent.address))
fdt_get_size(node, cells) ==
  Number(SubSeq(cells, node.parent.address + 1, node.parent.address + node.parent.size))
Listed(lexeme, str) == \E k \in DOMAIN lexeme.strs : lexeme.strs[k] = str
IsString(lexeme, name, str) == lexeme.name = name /\ lexeme.strs[1] = str

(***************************************************************************)
(* query_mem: the size of the range of a memory node the code itself is in *)
(***************************************************************************)
mem_open(m, node) == [m EXCEPT !.scan.memory = FALSE, !.scan.reg = <<>>]

mem_prop(m, node, i) ==
  LET l == m.tree[i]
  IN  CASE IsString(l, "device_type", "memory") -> [m EXCEPT !.scan.memory = TRUE]
        [] l.name = "reg"                       -> [m EXCEPT !.scan.reg = l.cells]
        [] OTHER                                -> m

mem_done(m, node) ==
  LET width == node.parent.address + node.parent.size
      count == Len(m.scan.reg) \div width
      pair(k) == SubSeq(m.scan.reg, (k - 1) * width + 1, k * width)
      take(size, k) == LET base == fdt_get_address(node, pair(k))
                           s    == fdt_get_size(node, pair(k))
                       IN  IF base <= Self /\ Self <= base + s THEN s ELSE size
  IN  IF ~m.scan.memory THEN m
      ELSE Require([m EXCEPT !.scan.size = FoldLeft(take, @, [k \in 1 .. count |-> k])],
                  m.scan.reg # <<>> /\ Len(m.scan.reg) = count * width)

(***************************************************************************)
(* query_harts: a hart is a cpu node with an interrupt controller in it;   *)
(* its number is the last reg seen in the cpu node, its phandle the        *)
(* controller's.                                                           *)
(***************************************************************************)
hart_open(m, node) ==
  [m EXCEPT !.scan.hart    = IF m.scan.cpu = 0 THEN -1 ELSE @,
            !.scan.cells   = IF m.scan.controller = 0 THEN 0 ELSE @,
            !.scan.phandle = IF m.scan.controller = 0 THEN 0 ELSE @]

hart_prop(m, node, i) ==
  LET l == m.tree[i]
  IN  CASE IsString(l, "device_type", "cpu")   -> Require([m EXCEPT !.scan.cpu = node.at], m.scan.cpu = 0)
        [] l.name = "interrupt-controller"     -> Require([m EXCEPT !.scan.controller = node.at],
                                                         m.scan.controller = 0)
        [] l.name = "#interrupt-cells"         -> [m EXCEPT !.scan.cells = l.cells[1]]
        [] l.name = "phandle"                  -> [m EXCEPT !.scan.phandle = l.cells[1]]
        [] l.name = "reg"                      -> [m EXCEPT !.scan.hart = fdt_get_address(node, l.cells)]
        [] OTHER                               -> m

hart_done(m, node) ==
  LET s  == m.scan
      m1 == Require(m, s.cpu = node.at => s.hart >= 0)
      m2 == Require(m1, s.phandle > 0 /\ s.cells = 1)
  IN  IF ~m1.ok \/ s.cpu = 0 \/ s.controller # node.at THEN m1
      ELSE IF s.hart >= NumHarts \/ ~m2.ok THEN m2
      ELSE [m2 EXCEPT !.scan.phandles[s.hart] = s.phandle, !.scan.mask = @ \cup {s.hart}]

\* The end of a controller is not noticed: what follows counts as part of it.
HartCloseCpuOnly(m, node) == [m EXCEPT !.scan.cpu = IF @ = node.at THEN 0 ELSE @]

hart_close(m, node) ==
  [m EXCEPT !.scan.cpu = IF @ = node.at THEN 0 ELSE @,
            !.scan.controller = IF @ = node.at THEN 0 ELSE @]

(***************************************************************************)
(* query_clint and query_plic: the position of a hart's phandle among the  *)
(* interrupts says which registers are the hart's.                         *)
(***************************************************************************)
device_open(m, node) == [m EXCEPT !.scan.compat = FALSE, !.scan.reg = 0, !.scan.ints = 0]

device_prop(m, node, i) ==
  LET l == m.tree[i]
  IN  CASE l.name = "compatible" /\ Listed(l, m.scan.wanted) -> [m EXCEPT !.scan.compat = TRUE]
        [] l.name = "reg"                 -> [m EXCEPT !.scan.reg = fdt_get_address(node, l.cells)]
        [] l.name = "interrupts-extended" -> [m EXCEPT !.scan.ints = i]
        [] l.name = "riscv,ndev"          -> [m EXCEPT !.scan.ndev = l.cells[1]]
        [] OTHER                          -> m

\* The first hart with that phandle, or NumHarts.
HartOf(phandles, phandle) ==
  LET found == {h \in DOMAIN phandles : phandles[h] = phandle}
  IN  IF found = {} THEN NumHarts ELSE CHOOSE h \in found : \A g \in found : h <= g

DeviceOk(m, width) ==
  /\ m.scan.reg # 0 /\ m.scan.ints # 0 /\ ~m.scan.done
  /\ Len(m.tree[m.scan.ints].cells) % width = 0

\* Entry k (from 0) of the interrupts, `width` cells each.
Wire(m, k, width, n) == m.tree[m.scan.ints].cells[k * width + n]
Wires(m, width) == [k \in 1 .. Len(m.tree[m.scan.ints].cells) \div width |-> k - 1]

clint_done(m, node) ==
  LET take(ipi, k) == LET h == HartOf(m.scan.phandles, Wire(m, k, 4, 1))
                      IN  IF h < NumHarts THEN [ipi EXCEPT ![h] = k] ELSE ipi
  IN  IF ~m.scan.compat THEN m
      ELSE IF ~DeviceOk(m, 4) THEN Require(m, FALSE)
      ELSE [m EXCEPT !.scan.done = TRUE, !.scan.ipi = FoldLeft(take, @, Wires(m, 4))]

plic_done(m, node) ==
  LET take(ie, k) == LET h == HartOf(m.scan.phandles, Wire(m, k, 2, 1))
                         q == Wire(m, k, 2, 2)
                     IN  IF h < NumHarts /\ q \in {IRQ_M_EXT, IRQ_S_EXT}
                           THEN [ie EXCEPT ![<<h, q>>] = k] ELSE ie
  IN  IF ~m.scan.compat THEN m
      ELSE IF ~DeviceOk(m, 2) \/ m.scan.ndev \notin 0 .. 1023 THEN Require(m, FALSE)
      ELSE [m EXCEPT !.scan.done = TRUE, !.scan.ie = FoldLeft(take, @, Wires(m, 2))]

\* -1 stands for a register address that was never set.
Device(wanted, phandles) ==
  [wanted |-> wanted, compat |-> FALSE, reg |-> 0, ints |-> 0, ndev |-> 0, done |-> FALSE,
   phandles |-> phandles, ipi |-> [h \in 0 .. NumHarts - 1 |-> -1],
   ie |-> [q \in (0 .. NumHarts - 1) \X {IRQ_M_EXT, IRQ_S_EXT} |-> -1]]

(***************************************************************************)
(* query_uart: the first uart with an address                              *)
(***************************************************************************)
uart_open(m, node) == [m EXCEPT !.scan.compat = FALSE, !.scan.reg = 0]

uart_prop(m, node, i) ==
  LET l == m.tree[i]
  IN  CASE IsString(l, "compatible", "sifive,uart0") -> [m EXCEPT !.scan.compat = TRUE]
        [] l.name = "reg" -> [m EXCEPT !.scan.reg = fdt_get_address(node, l.cells)]
        [] OTHER          -> m

uart_done(m, node) ==
  IF m.scan.compat /\ m.scan.uart = 0 THEN [m EXCEPT !.scan.uart = m.scan.reg] ELSE m

(***************************************************************************)
(* The filters, which write into the copy for the operating system.        *)
(***************************************************************************)
plic_redact(m, node) ==
  LET cells == m.tree[m.scan.ints].cells
  IN  IF ~m.scan.compat THEN m
      ELSE [m EXCEPT !.tree[m.scan.ints].cells =
              [k \in DOMAIN cells |-> IF k % 2 = 0 /\ cells[k] = IRQ_M_EXT THEN -1 ELSE cells[k]]]

compat_open(m, node) == [m EXCEPT !.scan.depth = @ + 1]

compat_prop(m, node, i) ==
  LET s == m.scan
  IN  IF m.tree[i].name = "compatible" /\ Listed(m.tree[i], s.wanted) /\ s.depth < s.kill
        THEN [m EXCEPT !.scan.kill = s.depth] ELSE m

\* The mark of a removed node is kept, and removes its next sibling as well.
CompatCloseKeeps(m, node) ==
  [m EXCEPT !.scan.depth = @ - 1, !.kill = m.scan.kill = m.scan.depth]

compat_close(m, node) ==
  LET hit == m.scan.kill = m.scan.depth
  IN  [m EXCEPT !.scan.depth = @ - 1, !.scan.kill = IF hit THEN 999 ELSE @, !.kill = hit]

hart_filter_open(m, node) == [m EXCEPT !.scan.status = 0, !.scan.compat = FALSE, !.scan.hart = -1]

hart_filter_prop(m, node, i) ==
  LET l == m.tree[i]
  IN  CASE IsString(l, "device_type", "cpu") -> [m EXCEPT !.scan.compat = TRUE]
        [] l.name = "reg"    -> [m EXCEPT !.scan.hart = fdt_get_address(node, l.cells)]
        [] l.name = "status" -> [m EXCEPT !.scan.status = i]
        [] OTHER             -> m

hart_filter_done(m, node) ==
  LET s == m.scan
  IN  IF ~s.compat THEN m
      ELSE IF s.status = 0 \/ s.hart < 0 THEN Require(m, FALSE)
      ELSE IF s.hart \in s.mask /\ m.tree[s.status].strs = <<"okay">>
             THEN [m EXCEPT !.tree[s.status].strs = <<"masked">>]
      ELSE m

(***************************************************************************)
(* fdt_scan.  m.cb names the callbacks, the fields of a struct fdt_cb; a   *)
(* field that is not set is not called.                                    *)
(***************************************************************************)
cb_open(m, node) ==
  CASE m.cb = "mem"               -> mem_open(m, node)
    [] m.cb = "hart"              -> hart_open(m, node)
    [] m.cb \in {"clint", "plic", "redact"} -> device_open(m, node)
    [] m.cb = "uart"              -> uart_open(m, node)
    [] m.cb = "compat"            -> compat_open(m, node)
    [] m.cb = "hart_filter"       -> hart_filter_open(m, node)

cb_prop(m, node, i) ==
  CASE m.cb = "mem"               -> mem_prop(m, node, i)
    [] m.cb = "hart"              -> hart_prop(m, node, i)
    [] m.cb \in {"clint", "plic", "redact"} -> device_prop(m, node, i)
    [] m.cb = "uart"              -> uart_prop(m, node, i)
    [] m.cb = "compat"            -> compat_prop(m, node, i)
    [] m.cb = "hart_filter"       -> hart_filter_prop(m, node, i)

cb_done(m, node) ==
  CASE m.cb = "mem"         -> mem_done(m, node)
    [] m.cb = "hart"        -> hart_done(m, node)
    [] m.cb = "clint"       -> clint_done(m, node)
    [] m.cb = "plic"        -> plic_done(m, node)
    [] m.cb = "redact"      -> plic_redact(m, node)
    [] m.cb = "uart"        -> uart_done(m, node)
    [] m.cb = "hart_filter" -> hart_filter_done(m, node)
    [] OTHER                -> m

cb_close(m, node) ==
  CASE m.cb = "hart"   -> hart_close(m, node)
    [] m.cb = "compat" -> compat_close(m, node)
    [] OTHER           -> m

Innermost(m) == m.stack[Len(m.stack)]

\* done is called once for a node: at its first child, or at its end.
NodeDone(m) ==
  IF Innermost(m).last \/ Len(m.stack) = 1 THEN m ELSE cb_done(m, NodeOf(m.stack))

ScanProp(m, i) ==
  LET set == [m EXCEPT !.stack = SetCells(@, m.tree[i])]
  IN  IF Innermost(m).last THEN Require(m, FALSE) ELSE cb_prop(set, NodeOf(set.stack), i)

BeginNode(m, i) ==
  LET seen   == NodeDone(m)
      marked == [seen EXCEPT !.stack[Len(seen.stack)].last = TRUE]
      inside == [marked EXCEPT !.stack = Append(@, Frame(i))]
  IN  cb_open(inside, NodeOf(inside.stack))

\* A node whose close answers -1 is overwritten, children and all.
EndNode(m, i) ==
  LET seen   == NodeDone(m)
      closed == cb_close(seen, NodeOf(seen.stack))
      gone   == IF closed.kill THEN Innermost(m).start .. i ELSE {}
  IN  [closed EXCEPT !.tree = [k \in DOMAIN @ |-> IF k \in gone THEN FDT_NOP ELSE @[k]],
                     !.kill = FALSE, !.stack = Front(@)]

ScanLexeme(m, i) ==
  CASE ~m.ok \/ m.tree[i].kind = "nop" -> m
    [] m.ok /\ m.tree[i].kind = "prop"   -> ScanProp(m, i)
    [] m.ok /\ m.tree[i].kind = "begin"  -> BeginNode(m, i)
    [] m.ok /\ m.tree[i].kind = "end"    -> EndNode(m, i)
    [] m.ok /\ m.tree[i].kind = "finish" -> NodeDone(m)

fdt_scan(tree, cb, extra) ==
  FoldLeft(ScanLexeme,
           [tree |-> tree, cb |-> cb, stack |-> <<Frame(0)>>, scan |-> extra, ok |-> TRUE, kill |-> FALSE],
           [i \in 1 .. Len(tree) |-> i])

(***************************************************************************)
(* The queries of init_first_hart, and the filters of filter_dtb.          *)
(***************************************************************************)
query_uart(tree) == fdt_scan(tree, "uart", [compat |-> FALSE, reg |-> 0, uart |-> 0])

query_mem(tree) ==
  LET m == fdt_scan(tree, "mem", [memory |-> FALSE, reg |-> <<>>, size |-> 0])
  IN  Require(m, m.scan.size > 0)

query_harts(tree, mhartid) ==
  LET m == fdt_scan(tree, "hart", [cpu |-> 0, hart |-> 0, controller |-> 0, cells |-> 0, phandle |-> 0,
                                   phandles |-> [h \in 0 .. NumHarts - 1 |-> 0], mask |-> {}])
  IN  Require(m, \E h \in m.scan.mask : h >= mhartid)

query_clint(tree, phandles) ==
  LET m == fdt_scan(tree, "clint", Device("riscv,clint0", phandles))
  IN  Require(m, m.scan.done)

query_plic(tree, phandles) == fdt_scan(tree, "plic", Device("riscv,plic0", phandles))

filter_plic(tree) == fdt_scan(tree, "redact", Device("riscv,plic0", <<>>)).tree

filter_compat(tree, compat) == fdt_scan(tree, "compat", [wanted |-> compat, depth |-> 0, kill |-> 999]).tree

filter_harts(tree, mask) ==
  fdt_scan(tree, "hart_filter", [mask |-> mask, status |-> 0, compat |-> FALSE, hart |-> -1]).tree

filter_dtb(tree, mask) ==
  filter_compat(filter_compat(filter_plic(filter_harts(tree, mask)), "riscv,clint0"), "riscv,debug-013")
=============================================================================
