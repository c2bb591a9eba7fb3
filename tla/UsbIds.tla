------------------------------- MODULE UsbIds -------------------------------
(***************************************************************************)
(* usb_ids.cpp of libusbip: the parser of usb.ids, which gives names to    *)
(* vendors, products and classes, and what the tools print of them         *)
(* (usbip/strings.cpp).  A line is its kind, which is how it starts, the   *)
(* number after that and the name after the number.                        *)
(***************************************************************************)
EXTENDS Naturals, Sequences, FiniteSetsExt, TLC

CONSTANTS
  IdsFiles,         \* contents of usb.ids, sequences of lines
  Numbers           \* of vendors, products, classes; zero also stands for what is no
                    \* number (remove_prefix_hex)

Entry(kind, id, name) == [kind |-> kind, id |-> id, name |-> name]
Comment == Entry("#", 0, "")
ListOfClasses == Entry("# List of known device classes", 0, "")
ListOfAudioTerminals == Entry("# List of Audio Class Terminal Types", 0, "")
Blank == Entry("", 0, "")

\* unordered_map::emplace: an element that is there stays as it is.
emplace(map, key, val) == [k \in DOMAIN map \cup {key} |-> IF k \in DOMAIN map THEN map[k] ELSE val]

\* operator[] creates an element without a name.
at_or_new(map, key) == emplace(map, key, "")

\* UsbIds::Impl, and the variables of load and of parse_vid_pid that the lambdas refer
\* to.  Products are indexed by vendor and product, and so on.
NoIds ==
  [part |-> "vendors", vid |-> 0, m_vendor |-> <<>>, products |-> <<>>,
   cls |-> 0, subcls |-> 0, m_class |-> <<>>, subclasses |-> <<>>, protocols |-> <<>>]

\* Mutant of remove_vid: a line that is no vendor leaves the last one in force.
remove_vid_keeps(t, line) == IF line.id = 0 THEN t.vid ELSE line.id

\* vid = remove_prefix_hex(line, 4)
remove_vid(t, line) == line.id

parse_vid_pid(t, line) ==
  CASE line = ListOfClasses -> [t EXCEPT !.part = "classes"]
    [] line.kind = "t" /\ line.id # 0 ->
         [t EXCEPT !.m_vendor = at_or_new(@, t.vid),
                   !.products = emplace(@, <<t.vid, line.id>>, line.name)]
    [] line.kind = "vendor" ->
         [t EXCEPT !.vid = remove_vid(t, line),
                   !.m_vendor = IF line.id = 0 THEN @ ELSE emplace(@, line.id, line.name)]
    [] OTHER -> t

parse_class_sub_proto(t, line) ==
  CASE line = ListOfAudioTerminals -> [t EXCEPT !.part = "end"]
    [] line.kind = "tt" /\ line.id # 0 ->
         [t EXCEPT !.m_class = at_or_new(@, t.cls),
                   !.subclasses = at_or_new(@, <<t.cls, t.subcls>>),
                   !.protocols = emplace(@, <<t.cls, t.subcls, line.id>>, line.name)]
    [] line.kind = "t" ->
         IF line.id = 0 THEN [t EXCEPT !.subcls = 0]
         ELSE [t EXCEPT !.subcls = line.id,
                        !.m_class = at_or_new(@, t.cls),
                        !.subclasses = emplace(@, <<t.cls, line.id>>, line.name)]
    [] line.kind = "C" ->
         [t EXCEPT !.cls = line.id, !.m_class = emplace(@, line.id, line.name)]
    [] OTHER -> t

\* for_each_line skips empty lines and stops when the parser says so.
for_each_line(t, line) ==
  IF line = Blank \/ t.part = "end" THEN t
  ELSE IF t.part = "vendors" THEN parse_vid_pid(t, line) ELSE parse_class_sub_proto(t, line)

load(content) ==
  LET after[i \in 0..Len(content)] == IF i = 0 THEN NoIds ELSE for_each_line(after[i - 1], content[i])
  IN  after[Len(content)]

NameOf(map, key) == IF key \in DOMAIN map THEN map[key] ELSE ""

find_product(t, vid, pid) ==
  IF vid \in DOMAIN t.m_vendor THEN <<t.m_vendor[vid], NameOf(t.products, <<vid, pid>>)>>
                               ELSE <<"", "">>

find_class_subclass_proto(t, c, s, p) ==
  IF c \notin DOMAIN t.m_class THEN <<"", "", "">>
  ELSE IF <<c, s>> \notin DOMAIN t.subclasses THEN <<t.m_class[c], "", "">>
  ELSE <<t.m_class[c], t.subclasses[<<c, s>>], NameOf(t.protocols, <<c, s, p>>)>>

\* What on_device and on_interface print; a name that is unknown is replaced.
Or(name, unknown) == IF name = "" THEN unknown ELSE name

get_product(t, vid, pid) ==
  LET n == find_product(t, vid, pid) IN <<Or(n[1], "unknown vendor"), Or(n[2], "unknown product")>>

\* Nothing is looked up unless all the three are set.
get_class(t, c, s, p) ==
  IF c = 0 \/ s = 0 \/ p = 0 THEN <<"(Defined at Interface level)">>
  ELSE LET n == find_class_subclass_proto(t, c, s, p) IN [i \in 1..3 |-> Or(n[i], "?")]
-----------------------------------------------------------------------------
(***************************************************************************)
(* What the file says, without reading it in order.                        *)
(***************************************************************************)
\* The last line before i that is of one of these kinds, or 0.
Above(f, i, kinds) ==
  LET J == {j \in 1..(i - 1) : f[j].kind \in kinds} IN IF J = {} THEN 0 ELSE Max(J)

\* The name in the first of the lines.
FirstName(f, lines) == IF lines = {} THEN "" ELSE f[Min(lines)].name

\* The last line before the first one after line n that is this mark.
Before(f, n, mark) ==
  LET J == {j \in (n + 1)..Len(f) : f[j] = mark} IN IF J = {} THEN Len(f) ELSE Min(J) - 1

\* The lines of the vendors, and those of the classes.
LastVendorLine(f) == Before(f, 0, ListOfClasses)
VendorLines(f) == 1..LastVendorLine(f)
ClassLines(f) == (LastVendorLine(f) + 1)..Before(f, LastVendorLine(f), ListOfAudioTerminals)

Has(f, i, kind, id) == i > 0 /\ f[i].kind = kind /\ f[i].id = id

\* A protocol is below a subclass of the same class, as in the usb.ids that is compiled into
\* the tools: parse_class_sub_proto does not forget the subclass when a class begins.
ASSUME IdsAssumption ==
  /\ Numbers \subseteq Nat
  /\ \A f \in IdsFiles :
    /\ f \in Seq([kind : STRING, id : Nat, name : STRING])
    /\ \A i \in ClassLines(f) : f[i].kind = "tt" =>
          LET j == Above(f, i, {"t", "C"}) IN j \in ClassLines(f) /\ f[j].kind = "t"

DeclaredProduct(f, v, p) ==
  <<FirstName(f, {i \in VendorLines(f) : Has(f, i, "vendor", v)}),
    FirstName(f, {i \in VendorLines(f) : Has(f, i, "t", p) /\ Has(f, Above(f, i, {"vendor"}), "vendor", v)})>>

DeclaredClass(f, c, s, p) ==
  LET In(i) == Above(f, i, {"C"}) \in ClassLines(f) /\ Has(f, Above(f, i, {"C"}), "C", c)
      Sub(i) == Has(f, i, "t", s) /\ In(i) IN
  <<FirstName(f, {i \in ClassLines(f) : Has(f, i, "C", c)}),
    FirstName(f, {i \in ClassLines(f) : Sub(i)}),
    FirstName(f, {i \in ClassLines(f) : Has(f, i, "tt", p) /\ Above(f, i, {"t", "C"}) > 0
                                        /\ Sub(Above(f, i, {"t", "C"}))})>>

\* Whatever is in the vendors' part of usb.ids, a device is shown with the name of its
\* vendor and of a product of that vendor, and an interface with the names of its class: a
\* product after a line that is no vendor is not listed for the vendor before
\* (parse_vid_pid, parse_class_sub_proto, get_product, get_class).
IdsAgree ==
  \A f \in IdsFiles :
    LET t == load(f) IN
    \A v, p \in Numbers \ {0} :
      /\ LET n == DeclaredProduct(f, v, p) IN
         get_product(t, v, p) = <<Or(n[1], "unknown vendor"), Or(n[2], "unknown product")>>
      /\ \A c \in Numbers \ {0} :
           LET n == DeclaredClass(f, c, v, p) IN
           get_class(t, c, v, p) = [i \in 1..3 |-> Or(n[i], "?")]
=============================================================================
