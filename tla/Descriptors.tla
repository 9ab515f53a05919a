---------------------------- MODULE Descriptors ----------------------------
(***************************************************************************)
(* The words of ARM page tables, as the headers of arch/arm_a/mm build     *)
(* them (VMSAv7 and VMSAv6: section.h, supersection.h, large_page.h,       *)
(* small_page.h, extended_small_page.h, pagetable.h, coarse_page_table.h). *)
(* A word is the set of its bits that are 1, so `|' is union and fields    *)
(* that overlap spoil each other.  A format says where each field begins.  *)
(* Read is the other side: how the MMU reads a word (ARM Architecture      *)
(* Reference Manual, B3.5 and B4), independently of the headers.           *)
(***************************************************************************)
EXTENDS Integers

\* The bits of the w bits wide number v, put at bit lo.
Bits(lo, w, v) == {lo + i : i \in {j \in 0 .. w - 1 : (v \div 2^j) % 2 = 1}}
Flag(lo, b)    == IF b THEN {lo} ELSE {}

\* The number in the w bits of a word from bit lo on.
FieldOf(word, lo, w) ==
  LET value[i \in 0 .. w] == IF i = 0 THEN 0
                             ELSE value[i - 1] + (IF lo + i - 1 \in word THEN 2^(i - 1) ELSE 0)
  IN  value[w]

Policies == {"nocacheable", "writeback_writeallocate", "writethrough", "writeback"}

\* The enumerators of MEMTYPE: strongly ordered, device, one policy for both caches, or one
\* for the outer and one for the inner.  The last may name one policy twice: `split' tells
\* the two enumerators apart.
Uniform(p, s) == [type |-> "normal", outer |-> p, inner |-> p, shared |-> s]
StronglyOrdered == [type |-> "ordered", shared |-> TRUE]
Device(s)       == [type |-> "device", shared |-> s]
MemTypes ==
  {[split |-> FALSE, is |-> t] :
     t \in {StronglyOrdered} \cup {Device(s) : s \in BOOLEAN}
           \cup {Uniform(p, s) : p \in Policies, s \in BOOLEAN}}
  \cup {[split |-> TRUE, is |-> [type |-> "normal", outer |-> o, inner |-> i, shared |-> s]] :
          o \in Policies, i \in Policies, s \in BOOLEAN}

\* C and B as a two bit number, and the low bits of TEX, of a policy of its own cache.
Policy(p) == CASE p = "nocacheable" -> 0 [] p = "writeback_writeallocate" -> 1
               [] p = "writethrough" -> 2 [] p = "writeback" -> 3

\* <<TEX, C and B>> of an enumerator.
TexCB(m) ==
  CASE m.is.type = "ordered"      -> <<0, 0>>
    [] m.is.type = "device"       -> IF m.is.shared THEN <<0, 1>> ELSE <<2, 0>>
    [] m.split                    -> <<4 + Policy(m.is.outer), Policy(m.is.inner)>>
    [] m.is.type = "normal" /\ ~m.split ->
         CASE m.is.outer = "writethrough" -> <<0, 2>> [] m.is.outer = "writeback" -> <<0, 3>>
           [] m.is.outer = "nocacheable"  -> <<1, 0>> [] OTHER -> <<1, 3>>

MEMTYPE(f, m) ==
  Bits(f.TEX, 3, TexCB(m)[1]) \cup Bits(f.B, 2, TexCB(m)[2])
    \cup Flag(f.S, m.is.type = "normal" /\ m.is.shared)

\* <<APX, AP>> of an access permission.
Accesses == {"none", "privileged_full", "privileged_full_user_readonly", "full",
             "privileged_readonly", "readonly"}
Permission(a) ==
  CASE a = "none" -> <<0, 0>> [] a = "privileged_full" -> <<0, 1>>
    [] a = "privileged_full_user_readonly" -> <<0, 2>> [] a = "full" -> <<0, 3>>
    [] a = "privileged_readonly" -> <<1, 1>> [] a = "readonly" -> <<1, 2>>
ACCESS(f, a) == Bits(f.APX, 1, Permission(a)[1]) \cup Bits(f.AP, 2, Permission(a)[2])

-----------------------------------------------------------------------------
(* The formats: the bits every word of the format has, the bits of the address that it    *)
(* keeps, how it moves those above bit 31, and the first bit of each field.               *)

VMSAv7_section ==
  [BITS |-> {1}, BASE |-> 20 .. 31, XN |-> 4, S |-> 16, nG |-> 17, AP |-> 10, APX |-> 15,
   DOM |-> 5, B |-> 2, TEX |-> 12, NS |-> 19, PXN |-> 0]
VMSAv7_supersection ==
  [BITS |-> {1, 18}, BASE |-> 24 .. 39, XN |-> 4, S |-> 16, nG |-> 17, AP |-> 10, APX |-> 15,
   B |-> 2, TEX |-> 12, NS |-> 19, PXN |-> 0]
VMSAv7_largepage ==
  [BITS |-> {0}, BASE |-> 16 .. 31, XN |-> 15, S |-> 10, nG |-> 11, AP |-> 4, APX |-> 9,
   B |-> 2, TEX |-> 12]
\* Mutant: TEX where a large page has it.
VMSAv7_smallpage_Tex12 ==
  [BITS |-> {1}, BASE |-> 12 .. 31, XN |-> 0, S |-> 10, nG |-> 11, AP |-> 4, APX |-> 9,
   B |-> 2, TEX |-> 12]
VMSAv7_smallpage ==
  [BITS |-> {1}, BASE |-> 12 .. 31, XN |-> 0, S |-> 10, nG |-> 11, AP |-> 4, APX |-> 9,
   B |-> 2, TEX |-> 6]
VMSAv7_pagetable ==
  [BITS |-> {0}, BASE |-> 10 .. 31, DOM |-> 5, NS |-> 3, PXN |-> 2]

VMSAv6_section ==
  [BITS |-> {1}, BASE |-> 20 .. 31, XN |-> 4, S |-> 16, nG |-> 17, AP |-> 10, APX |-> 15,
   DOM |-> 5, B |-> 2, TEX |-> 12]
VMSAv6_supersection ==
  [BITS |-> {1, 18}, BASE |-> 24 .. 39, XN |-> 4, S |-> 16, nG |-> 17, AP |-> 10, APX |-> 15,
   B |-> 2, TEX |-> 12]
VMSAv6_largepage ==
  [BITS |-> {0}, BASE |-> 16 .. 31, XN |-> 15, S |-> 10, nG |-> 11, AP |-> 4, APX |-> 9,
   B |-> 2, TEX |-> 12]
VMSAv6_extendedsmallpage ==
  [BITS |-> {1}, BASE |-> 12 .. 31, XN |-> 0, S |-> 10, nG |-> 11, AP |-> 4, APX |-> 9,
   B |-> 2, TEX |-> 6]
VMSAv6_coarse_pt == [BITS |-> {0}, BASE |-> 10 .. 31, DOM |-> 5]

\* BASEADDR of a set of address bits; bits 32 to 35 go to 20 and 36 to 39 go to 5.
BASEADDR(f, phy) ==
  {IF b > 35 THEN b - 31 ELSE IF b > 31 THEN b - 12 ELSE b : b \in phy \cap f.BASE}

\* The build functions: `a' has the arguments that the format has a place for.
Build(f, phy, a) ==
  LET has(x) == x \in DOMAIN f
  IN  f.BITS \cup BASEADDR(f, phy)
        \cup (IF has("TEX") THEN MEMTYPE(f, a.memtype) \cup ACCESS(f, a.access)
                                   \cup Flag(f.nG, a.nG) \cup Flag(f.XN, a.XN) ELSE {})
        \cup (IF has("DOM") THEN Bits(f.DOM, 4, a.domain) ELSE {})
        \cup (IF has("PXN") THEN Flag(f.PXN, a.PXN) \cup Flag(f.NS, a.NS) ELSE {})

-----------------------------------------------------------------------------
(* How the MMU reads a word of the first or second level: what it is, and its attributes. *)

Kind(level, w) ==
  CASE w \cap {0, 1} = {}  -> "fault"
    [] level = 1 /\ 1 \in w -> IF 18 \in w THEN "supersection" ELSE "section"
    [] level = 1 /\ 1 \notin w /\ 0 \in w -> "table"
    [] level = 2 /\ 1 \in w -> "small page"
    [] level = 2 /\ 1 \notin w /\ 0 \in w -> "large page"

ReadPolicy(n) == <<"nocacheable", "writeback_writeallocate", "writethrough", "writeback">>[n + 1]

ReadMemory(tex, cb, s) ==
  CASE tex >= 4 -> [type |-> "normal", outer |-> ReadPolicy(tex - 4), inner |-> ReadPolicy(cb),
                    shared |-> s]
    [] tex = 0 /\ cb = 0 -> [type |-> "ordered", shared |-> TRUE]
    [] tex = 0 /\ cb = 1 -> [type |-> "device", shared |-> TRUE]
    [] tex = 2 /\ cb = 0 -> [type |-> "device", shared |-> FALSE]
    [] tex = 0 /\ cb >= 2 -> Uniform(ReadPolicy(cb), s)
    [] tex = 1 /\ cb = 0 -> Uniform("nocacheable", s)
    [] tex = 1 /\ cb = 3 -> Uniform("writeback_writeallocate", s)
    [] OTHER -> [type |-> "reserved"]

\* AP[2:0] of the manual, APX being bit 2.
ReadAccess(ap) ==
  CASE ap = 0 -> "none" [] ap = 1 -> "privileged_full"
    [] ap = 2 -> "privileged_full_user_readonly" [] ap = 3 -> "full"
    [] ap = 5 -> "privileged_readonly" [] ap \in {6, 7} -> "readonly" [] ap = 4 -> "reserved"

ReadAttributes(w, tex, s, apx, ap, xn, ng) ==
  [memory |-> ReadMemory(FieldOf(w, tex, 3), FieldOf(w, 2, 2), s \in w),
   access |-> ReadAccess(4 * FieldOf(w, apx, 1) + FieldOf(w, ap, 2)),
   XN |-> xn \in w, nG |-> ng \in w]

Read(level, w) ==
  CASE Kind(level, w) \in {"section", "supersection"} -> ReadAttributes(w, 12, 16, 15, 10, 4, 17)
    [] Kind(level, w) = "large page" -> ReadAttributes(w, 12, 10, 9, 4, 15, 11)
    [] Kind(level, w) = "small page" -> ReadAttributes(w, 6, 10, 9, 4, 0, 11)

ReadAddress(level, w) ==
  CASE Kind(level, w) = "section"      -> w \cap (20 .. 31)
    [] Kind(level, w) = "supersection" -> (w \cap (24 .. 31))
         \cup {b + 12 : b \in w \cap (20 .. 23)} \cup {b + 31 : b \in w \cap (5 .. 8)}
    [] Kind(level, w) = "table"        -> w \cap (10 .. 31)
    [] Kind(level, w) = "large page"   -> w \cap (16 .. 31)
    [] Kind(level, w) = "small page"   -> w \cap (12 .. 31)

-----------------------------------------------------------------------------
(* Every word that can be built, read back. *)

Formats ==
  {[kind |-> "section", level |-> 1, f |-> VMSAv7_section],
   [kind |-> "section", level |-> 1, f |-> VMSAv6_section],
   [kind |-> "supersection", level |-> 1, f |-> VMSAv7_supersection],
   [kind |-> "supersection", level |-> 1, f |-> VMSAv6_supersection],
   [kind |-> "table", level |-> 1, f |-> VMSAv7_pagetable],
   [kind |-> "table", level |-> 1, f |-> VMSAv6_coarse_pt],
   [kind |-> "large page", level |-> 2, f |-> VMSAv7_largepage],
   [kind |-> "large page", level |-> 2, f |-> VMSAv6_largepage],
   [kind |-> "small page", level |-> 2, f |-> VMSAv7_smallpage],
   [kind |-> "small page", level |-> 2, f |-> VMSAv6_extendedsmallpage]}
Arguments ==
  [memtype : MemTypes, access : Accesses, domain : {0, 5, 10, 15},
   nG : BOOLEAN, XN : BOOLEAN, PXN : BOOLEAN, NS : BOOLEAN]


\* The arguments a format has places for, the others fixed.
ArgumentsOf(f) ==
  {a \in Arguments :
     /\ "TEX" \in DOMAIN f \/ (a.memtype.is = StronglyOrdered /\ a.access = "none" /\ ~a.nG /\ ~a.XN)
     /\ "DOM" \in DOMAIN f \/ a.domain = 0
     /\ "PXN" \in DOMAIN f \/ (~a.PXN /\ ~a.NS)}

ReadsBack(x, phy, a, w) ==
  /\ w \subseteq 0 .. 31 /\ Kind(x.level, w) = x.kind
  /\ ReadAddress(x.level, w) = phy \cap x.f.BASE
  /\ "TEX" \in DOMAIN x.f =>
       Read(x.level, w) = [memory |-> a.memtype.is, access |-> a.access, XN |-> a.XN, nG |-> a.nG]
  /\ "DOM" \in DOMAIN x.f => FieldOf(w, 5, 4) = a.domain
  /\ "PXN" \in DOMAIN x.f => /\ ((IF x.kind = "table" THEN 2 ELSE 0) \in w) = a.PXN
                             /\ ((IF x.kind = "table" THEN 3 ELSE 19) \in w) = a.NS

\* Words that the MMU takes for something else than was asked for.
Misread ==
  {x \in Formats : \E phy \in {{}, {b \in 0 .. 39 : b % 3 = 0}, 0 .. 39}, a \in ArgumentsOf(x.f) :
     ~ReadsBack(x, phy, a, Build(x.f, phy, a))}
=============================================================================
