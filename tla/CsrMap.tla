-------------------------------- MODULE CsrMap --------------------------------
(***************************************************************************)
(* The registers of csr_file, the addresses they are written under, and    *)
(* what one CSR instruction does to one register.  A word is the set of    *)
(* its one bits.                                                           *)
(***************************************************************************)
EXTENDS Naturals

Csr  == {"mstatus", "mie", "mtvec", "mscratch", "mepc", "mcause", "mtval", "frm", "fflags"}
Addr == Csr \union {"fcsr", "mip", "misa", "other"}

Bits == 0..31
Word == SUBSET Bits

(* The bits of each register that exist.                                   *)
Exists(c, b) == CASE c = "mstatus" -> b \in {3, 7}
                  [] c = "mie"     -> b \in {7, 11}
                  [] c = "mtvec"   -> b # 1
                  [] c = "mepc"    -> b # 0
                  [] c = "mcause"  -> b <= 5 \/ b \in {28, 31}
                  [] c = "frm"     -> b <= 2
                  [] c = "fflags"  -> b <= 4
                  [] OTHER         -> TRUE

(* fcsr is frm above fflags.                                               *)
Touches(addr, c) == addr = c \/ (addr = "fcsr" /\ c \in {"frm", "fflags"})
Field_Bug(addr, c, data) ==                           \* fields that do not exist are written
  IF addr = "fcsr" /\ c = "frm" THEN {b \in 0..2 : b + 5 \in data} ELSE data
Field(addr, c, data) ==
  IF addr = "fcsr" /\ c = "frm" THEN {b \in 0..2 : b + 5 \in data} ELSE {b \in data : Exists(c, b)}
Fcsr(frm, fflags) == {b + 5 : b \in frm} \union fflags

(* csrrw, csrrs and csrrc.                                                 *)
Apply(cmd, old, new) == CASE cmd = "write" -> new
                          [] cmd = "set"   -> old \union new
                          [] cmd = "clear" -> old \ new

Op == [cmd : {"write", "set", "clear"}, addr : Addr, data : Word]

(* The value of c, old before, after instruction o.                        *)
Written(o, c, old) ==
  IF Touches(o.addr, c) THEN Apply(o.cmd, old, Field(o.addr, c, o.data)) ELSE old

(* mstatus on a trap and on MRET: bit 3 is MIE and bit 7 is MPIE.          *)
OnTrap(s)   == (s \ {3, 7}) \union (IF 3 \in s THEN {7} ELSE {})
OnReturn(s) == (s \ {3}) \union (IF 7 \in s THEN {3, 7} ELSE {7})
=============================================================================
