----------------------------- MODULE IrpMessage -----------------------------
(***************************************************************************)
(* From the format of an IRP message to the bytes of its UDP packet: the   *)
(* template the portal makes of the format                                 *)
(* (modules/reporter/irp/tools/template_generator.py), which a user edits, *)
(* and the message built from it (tools/message_builder.py).  The builder  *)
(* follows the JSON: it writes each key where the JSON has it, at the      *)
(* first element of that name it comes across.  Whoever receives the       *)
(* message follows the format.                                             *)
(*                                                                         *)
(* A format is a sequence of elements; JSON is a number, a list, or an     *)
(* object, whose entries keep their order.  Numbers stand for every type   *)
(* of field; switches, overlaps and footprints are left out.               *)
(***************************************************************************)
EXTENDS Naturals, Sequences, FiniteSets, SequencesExt

CONSTANTS
  Formats,       \* formats of messages
  Templates,     \* name of a template |-> its elements
  Enumerations,  \* name of an enumeration |-> its values, in order
  Long,          \* names of twenty characters and more
  ArrayNames,    \* names of fixed arrays: a user puts numbers into them
  Numbers,       \* numbers a user writes into fields
  MaxEdits       \* bound: edits of a template

ASSUME MessageAssumption ==
  /\ \A e \in DOMAIN Enumerations : Enumerations[e] # <<>>
  /\ Numbers \subseteq Nat /\ MaxEdits \in Nat

VARIABLES
  format,  \* the format of the message
  values,  \* the template, as edited so far
  edits,   \* number of edits
  packet   \* what the builder has made of it, NotFound before

messageVars == <<format, values, edits, packet>>

-----------------------------------------------------------------------------
(* Elements, as _create_elements_from_ordered_data makes them of the XML.  *)

Data(n, t)      == [el |-> "data", name |-> n, type |-> t]
Struct(n, es)   == [el |-> "struct", name |-> n, kids |-> es]
TemplateOf(t)   == [el |-> "template", name |-> t, of |-> t]
Named(n, t)     == [el |-> "template", name |-> n, of |-> t]
Clone(e, es)    == [el |-> "clone", enum |-> e, kids |-> es]
While(n, es)    == [el |-> "while", name |-> n, kids |-> es]
For(n, es)      == [el |-> "for", name |-> n, kids |-> es]
Array(n, t, k)  == [el |-> "array", name |-> n, type |-> t, size |-> k]
Cond(n, es)     == [el |-> "if", name |-> n, kids |-> es]
DivMod(n, d, q, r) == [el |-> "composite", name |-> n, by |-> d, kids |-> <<q, r>>]

\* Templates are parsed with xmltodict, messages are not: siblings of one tag come
\* together, where the first of them is.
RECURSIVE Grouped(_)
Grouped(es) ==
  LET whole(e) == IF "kids" \in DOMAIN e THEN [e EXCEPT !.kids = Grouped(@)] ELSE e
      isFirst(i) == \A j \in 1 .. i - 1 : es[j].el # es[i].el
      firsts == SelectSeq([i \in DOMAIN es |-> i], isFirst)
      like(i) == SelectSeq([j \in DOMAIN es |-> whole(es[j])], LAMBDA e : e.el = es[i].el)
  IN  FlattenSeq([k \in DOMAIN firsts |-> like(firsts[k])])

\* A template of a single struct is what is in the struct.
Unwrapped(es) == IF Len(es) = 1 /\ es[1].el = "struct" THEN es[1].kids ELSE es
Template(t) == Unwrapped(Grouped(Templates[t]))

(* JSON.                                                                   *)

Num(n)   == [json |-> "num", num |-> n]
List(s)  == [json |-> "list", items |-> s]
Obj(s)   == [json |-> "obj", entries |-> s]
Entry(k, v) == [key |-> k, val |-> v]

At(v, key) == v.entries[CHOOSE i \in DOMAIN v.entries : v.entries[i].key = key].val
Has(v, key) == \E i \in DOMAIN v.entries : v.entries[i].key = key

-----------------------------------------------------------------------------
(* What the builder makes of a piece: bytes, an exception, or, in a search,*)
(* nothing.                                                                *)

Bytes(b) == [got |-> "bytes", bytes |-> b]
Raised   == [got |-> "error", bytes |-> <<>>]
NotFound == [got |-> "none", bytes |-> <<>>]

\* A field that is not found raises, too.
Both(x, y) ==
  IF x.got = "bytes" /\ y.got = "bytes" THEN Bytes(x.bytes \o y.bytes) ELSE Raised
Joined(parts) == FoldLeft(Both, Bytes(<<>>), parts)

Width(type) == IF type = "uint-8" THEN 1 ELSE 2

\* struct.pack: little-endian, and an exception for a number out of range.
Packed(type, n) ==
  IF n >= 256 ^ Width(type) THEN Raised
  ELSE Bytes([i \in 1 .. Width(type) |-> (n \div 256 ^ (i - 1)) % 256])

\* The end of a while-loop: 999999 in four bytes.
Sentinel == <<63, 66, 15, 0>>

\* An object of objects with a long name among its keys has no value of its own
\* (_has_definitive_value): its entries are looked for instead of itself.
Container(v) ==
  /\ v.json = "obj"
  /\ \A i \in DOMAIN v.entries : v.entries[i].val.json = "obj"
  /\ \E i \in DOMAIN v.entries : v.entries[i].key \in Long

RECURSIVE Built(_, _), Found(_, _, _)

FoundInClone(e, name, v) == IF e.enum = name THEN Built(e, v) ELSE NotFound

\* What is alone in a template has no fields to search, unless it is a struct or a
\* while-loop; a clone has no name, either.
FoundInTemplate(e, name, v) ==
  LET es    == Grouped(Templates[e.of])
      alone == Len(es) = 1 /\ es[1].el \notin {"struct", "while"}
  IN  IF ~ alone THEN Found(Template(e.of), name, v)
      ELSE IF es[1].el # "clone" /\ es[1].name = name THEN Built(es[1], v)
      ELSE NotFound

\* The first element that has the name, or has it inside.
Found(es, name, v) ==
  LET inside(e) ==
        CASE e.el = "clone"             -> FoundInClone(e, name, v)
          [] e.name = name              -> Built(e, v)
          [] e.el \in {"data", "array"} -> NotFound
          [] e.el = "template"          -> FoundInTemplate(e, name, v)
          [] OTHER                      -> Found(e.kids, name, v)
      results == [i \in DOMAIN es |-> inside(es[i])]
      hits    == {i \in DOMAIN es : results[i].got # "none"}
  IN  IF hits = {} THEN NotFound ELSE results[CHOOSE i \in hits : \A j \in hits : i <= j]

\* The entries of an object, in its order.
Entries(es, v) ==
  LET own(entry) ==
        IF Container(entry.val)
        THEN Joined([i \in DOMAIN entry.val.entries |->
                       Found(es, entry.val.entries[i].key, entry.val.entries[i].val)])
        ELSE Found(es, entry.key, entry.val)
  IN  IF v.json # "obj" THEN Raised
      ELSE Joined([i \in DOMAIN v.entries |-> own(v.entries[i])])

Items(es, v) == [i \in DOMAIN v.items |-> Entries(es, v.items[i])]

BuiltData(e, v) == IF v.json = "num" THEN Packed(e.type, v.num) ELSE Raised

BuiltStruct(es, v) ==
  IF v.json # "obj" \/ es = <<>> THEN Raised
  ELSE IF Len(es) = 1 THEN Built(es[1], v)
  ELSE LET clones == {i \in DOMAIN es : es[i].el = "clone"} IN
       IF clones # {} /\ \A i \in DOMAIN v.entries : ~ Container(v.entries[i].val)
       THEN Built(es[CHOOSE i \in clones : \A j \in clones : i <= j], v)
       ELSE Entries(es, v)

\* A body of one element gets its value out of an object with nothing else.
BuiltClone(e, v) ==
  LET alone(t) == /\ Len(e.kids) = 1 /\ t.json = "obj" /\ Len(t.entries) = 1
                  /\ e.kids[1].el # "clone" /\ e.kids[1].name = t.entries[1].key
      body(t)  == IF alone(t) THEN Built(e.kids[1], t.entries[1].val)
                  ELSE Joined([k \in DOMAIN e.kids |-> Built(e.kids[k], t)])
  IN  IF v.json # "obj" THEN Bytes(<<>>)
      ELSE Joined([i \in DOMAIN v.entries |-> body(v.entries[i].val)])

BuiltWhile(e, v) ==
  LET list == IF v.json = "obj" /\ Has(v, e.name) THEN At(v, e.name) ELSE v
  IN  IF list.json # "list" THEN Raised
      ELSE Both(Joined(Items(e.kids, list)), Bytes(Sentinel))

BuiltForUncounted(e, v) ==
  IF v.json # "list" THEN Raised ELSE Joined(Items(e.kids, v))
BuiltFor(e, v) ==
  LET list == IF v.json = "obj" /\ Len(v.entries) = 1 THEN v.entries[1].val ELSE v
  IN  IF list.json # "list" THEN Raised
      ELSE Both(Packed("uint-8", Len(list.items)), Joined(Items(e.kids, list)))

BuiltArray(e, v) ==
  IF v.json # "list" \/ Len(v.items) > e.size THEN Raised
  ELSE Joined([i \in 1 .. e.size |->
                 BuiltData(e, IF i <= Len(v.items) THEN v.items[i] ELSE Num(0))])

\* The condition is the truth of its value, and its value is that of the body.
BuiltCond(e, v) ==
  LET true == CASE v.json = "num" -> v.num # 0
                [] v.json = "obj" -> v.entries # <<>>
                [] OTHER          -> v.items # <<>>
      body(k) == IF Has(v, k.name) THEN Built(k, At(v, k.name)) ELSE Built(k, Obj(<<>>))
  IN  IF ~ true THEN Bytes(<<0>>)
      ELSE IF v.json # "obj" THEN Raised
      ELSE Both(Bytes(<<1>>), Joined([i \in DOMAIN e.kids |-> body(e.kids[i])]))

BuiltDivMod(e, v) ==
  IF v.json # "obj" \/ Len(v.entries) < 2 THEN Raised
  ELSE LET q == v.entries[1].val  r == v.entries[2].val IN
       IF q.json # "num" \/ r.json # "num" THEN Raised
       ELSE Packed("uint-8", q.num * e.by + r.num)

BuiltTemplate(e, v) == BuiltStruct(Template(e.of), v)

\* _process_xml_element.
Built(e, v) ==
  CASE e.el = "data"      -> BuiltData(e, v)
    [] e.el = "struct"    -> BuiltStruct(e.kids, v)
    [] e.el = "template"  -> BuiltTemplate(e, v)
    [] e.el = "clone"     -> BuiltClone(e, v)
    [] e.el = "while"     -> BuiltWhile(e, v)
    [] e.el = "for"       -> BuiltFor(e, v)
    [] e.el = "array"     -> BuiltArray(e, v)
    [] e.el = "if"        -> BuiltCond(e, v)
    [] e.el = "composite" -> BuiltDivMod(e, v)

\* build_message.
BuildMessage(f, v) == Entries(f, v)

-----------------------------------------------------------------------------
(* The template of a format.                                               *)

RECURSIVE Generated(_)

\* A template of a single struct or clone is what that contains.
Resolved(t) ==
  LET es == Template(t)  entries == Generated(Unwrapped(es)) IN
  IF Len(es) = 1 /\ es[1].el = "clone" THEN entries[1].val.entries ELSE entries

CloneBody(es) ==
  FlattenSeq([i \in DOMAIN es |-> IF es[i].el = "template" THEN Resolved(es[i].of)
                                  ELSE Generated(<<es[i]>>)])

\* A loop has one item, and an enumeration all its values.
LoopEntry(e) == Entry(e.name, List(<<Obj(Generated(e.kids))>>))

CloneEntry(e) ==
  LET keys == Enumerations[e.enum]
  IN  Entry(e.enum, Obj([i \in DOMAIN keys |-> Entry(keys[i], Obj(CloneBody(e.kids)))]))

CompositeEntry(e) == Entry(e.name, Obj(Generated(e.kids)))

TemplateEntries(e) ==
  IF e.name = "report-id" THEN Resolved(e.of) ELSE <<Entry(e.name, Obj(Resolved(e.of)))>>

\* The entries for a sequence of elements, in their order.  A condition is false, and
\* there is no number in an array.
Generated(es) ==
  LET of(e) ==
        CASE e.el \in {"data", "if"}   -> <<Entry(e.name, Num(0))>>
          [] e.el \in {"while", "for"} -> <<LoopEntry(e)>>
          [] e.el = "array"            -> <<Entry(e.name, List(<<>>))>>
          [] e.el = "clone"            -> <<CloneEntry(e)>>
          [] e.el = "struct"           -> <<Entry(e.name, Obj(Generated(e.kids)))>>
          [] e.el = "composite"        -> <<CompositeEntry(e)>>
          [] e.el = "template"         -> TemplateEntries(e)
  IN  FlattenSeq([i \in DOMAIN es |-> of(es[i])])

-----------------------------------------------------------------------------
(* A user fills the template in, and sends what has become of it.          *)

RECURSIVE Edited(_)

EditedEntry(t) ==
  Edited(t.val) \cup
  IF t.key \in ArrayNames THEN {List(Append(t.val.items, Num(n))) : n \in Numbers} ELSE {}

\* The values after one edit: another number, an item of a loop once more, or one
\* item less, a number more in an array.
Edited(v) ==
  CASE v.json = "num"  -> {Num(n) : n \in Numbers}
    [] v.json = "list" ->
         UNION {{List([v.items EXCEPT ![i] = w]) : w \in Edited(v.items[i])} : i \in DOMAIN v.items}
         \cup IF v.items = <<>> THEN {}
              ELSE {List(Append(v.items, Last(v.items))), List(Front(v.items))}
    [] v.json = "obj"  ->
         UNION {{Obj([v.entries EXCEPT ![i].val = w]) : w \in EditedEntry(v.entries[i])}
                  : i \in DOMAIN v.entries}

MessageInit ==
  /\ format \in Formats
  /\ values = Obj(Generated(format))
  /\ edits = 0
  /\ packet = NotFound

Edit ==
  /\ edits < MaxEdits
  /\ values' \in Edited(values)
  /\ edits' = edits + 1
  /\ packet' = NotFound
  /\ UNCHANGED format

\* A condition that holds has the fields of its body for a value.
TurnOn ==
  /\ edits < MaxEdits
  /\ \E i \in DOMAIN format :
       /\ format[i].el = "if"
       /\ values' = Obj([k \in DOMAIN values.entries |->
                          IF values.entries[k].key = format[i].name
                          THEN Entry(format[i].name, Obj(Generated(format[i].kids)))
                          ELSE values.entries[k]])
  /\ edits' = edits + 1
  /\ packet' = NotFound
  /\ UNCHANGED format

\* send_message_from_data: an exception of the builder, and nothing is sent.
Send ==
  /\ packet = NotFound
  /\ packet' = BuildMessage(format, values)
  /\ UNCHANGED <<format, values, edits>>

MessageNext == Edit \/ TurnOn \/ Send

MessageSpec == MessageInit /\ [][MessageNext]_messageVars

-----------------------------------------------------------------------------
(* The receiver, which goes through the format: what it reads, and what is *)
(* left of the bytes.  Loops are read with the number of their items.      *)

Read(ok, vals, rest) == [ok |-> ok, vals |-> vals, rest |-> rest]

RECURSIVE Parsed(_, _), ParsedItems(_, _, _)

\* One element after the other.
ParsedAll(es, b) ==
  FoldLeft(LAMBDA acc, e : LET r == Parsed(e, acc.rest)
                           IN  Read(acc.ok /\ r.ok, acc.vals \o r.vals, r.rest),
           Read(TRUE, <<>>, b), es)

\* The items of a loop that has "left" to go; -1: until the sentinel.
ParsedItems(es, b, left) ==
  IF left = 0 THEN Read(TRUE, <<0>>, b)
  ELSE IF left = -1 /\ Len(b) >= 4 /\ SubSeq(b, 1, 4) = Sentinel
  THEN Read(TRUE, <<0>>, SubSeq(b, 5, Len(b)))
  ELSE LET item == ParsedAll(es, b) IN
       IF ~ item.ok \/ item.rest = b THEN Read(FALSE, <<0>>, b)
       ELSE LET others == ParsedItems(es, item.rest, IF left = -1 THEN -1 ELSE left - 1)
            IN  Read(others.ok, <<others.vals[1] + 1>> \o item.vals \o Tail(others.vals),
                     others.rest)

Parsed(e, b) ==
  LET after(n)   == SubSeq(b, n + 1, Len(b))
      number     == CASE Len(b) < Width(e.type) -> Read(FALSE, <<>>, b)
                      [] OTHER -> Read(TRUE, <<IF Width(e.type) = 1 THEN b[1]
                                              ELSE b[1] + 256 * b[2]>>, after(Width(e.type)))
      times(n, es) == FlattenSeq([i \in 1 .. n |-> es])
  IN  CASE e.el = "data"      -> number
        [] e.el = "struct"    -> ParsedAll(e.kids, b)
        [] e.el = "template"  -> ParsedAll(Templates[e.of], b)
        [] e.el = "clone"     -> ParsedAll(times(Len(Enumerations[e.enum]), e.kids), b)
        [] e.el = "array"     -> ParsedAll(times(e.size, <<Data(e.name, e.type)>>), b)
        [] e.el = "while"     -> ParsedItems(e.kids, b, -1)
        [] b = <<>>           -> Read(FALSE, <<>>, b)
        [] e.el = "for"       -> ParsedItems(e.kids, after(1), b[1])
        [] e.el = "composite" -> Read(TRUE, <<b[1] \div e.by, b[1] % e.by>>, after(1))
        [] e.el = "if"        ->
             LET body == ParsedAll(IF b[1] = 0 THEN <<>> ELSE e.kids, after(1))
             IN  Read(body.ok, <<b[1]>> \o body.vals, body.rest)

-----------------------------------------------------------------------------
(* What the user means: for each element of the format its value, looked   *)
(* up by its name; whether the format has bytes for it; and whether every  *)
(* remainder is below its denominator.                                     *)

Meaning(ok, vals) == [ok |-> ok, vals |-> vals, below |-> TRUE]
Together(x, y) == [ok |-> x.ok /\ y.ok, vals |-> x.vals \o y.vals, below |-> x.below /\ y.below]
AllOf(meanings) == FoldLeft(Together, Meaning(TRUE, <<>>), meanings)

Number(type, n) == Meaning(n < 256 ^ Width(type), <<n>>)

\* The object for a template has the entries of what is in it, or is the value of
\* the one clone in it.
Opened(es, v) ==
  IF Len(es) = 1 /\ es[1].el = "clone" THEN Obj(<<Entry(es[1].enum, v)>>) ELSE v

RECURSIVE Meant(_, _)

MeantAll(es, v) == AllOf([i \in DOMAIN es |-> Meant(es[i], v)])

\* "v" is the object that has the entry for "e"; the fields of a report-id, and of a
\* template in the body of a clone, stand where that of the template would.
Meant(e, v) ==
  LET own     == At(v, e.name)
      keys    == Enumerations[e.enum]
      counted(list, meaning) == Together(Meaning(TRUE, <<Len(list)>>), meaning)
  IN  CASE e.el = "data"   -> Number(e.type, own.num)
        [] e.el = "struct" -> MeantAll(e.kids, own)
        [] e.el = "template" ->
             LET es == Unwrapped(Templates[e.of])
             IN  MeantAll(es, Opened(es, IF Has(v, e.name) THEN own ELSE v))
        [] e.el = "clone" ->
             AllOf([i \in DOMAIN keys |-> MeantAll(e.kids, At(At(v, e.enum), keys[i]))])
        [] e.el \in {"while", "for"} ->
             counted(own.items, AllOf([i \in DOMAIN own.items |-> MeantAll(e.kids, own.items[i])]))
        [] e.el = "array" ->
             Together(Meaning(Len(own.items) <= e.size, <<>>),
                      AllOf([i \in 1 .. e.size |->
                        IF i <= Len(own.items) THEN Number(e.type, own.items[i].num)
                        ELSE Meaning(TRUE, <<0>>)]))
        [] e.el = "if" ->
             IF own.json = "num" THEN Meaning(own.num = 0, <<0>>)
             ELSE Together(Meaning(TRUE, <<1>>), MeantAll(e.kids, own))
        [] e.el = "composite" ->
             LET q == At(own, e.kids[1].name).num
                 r == At(own, e.kids[2].name).num
             IN  [Meaning(q * e.by + r < 256, <<q, r>>) EXCEPT !.below = r < e.by]

AsWritten(vals) == ParsedAll(format, packet.bytes) = Read(TRUE, vals, <<>>)

\* The receiver reads what the user has written, to the last byte, although the
\* builder follows the JSON and the receiver the format; and there is an exception
\* just when the format has no bytes for what the user has written: a number that
\* does not fit, an array that is too long.  Nothing is promised of what is read when
\* a remainder is not below its denominator: the builder adds it up all the same.
MessagesAreRead ==
  packet # NotFound =>
    LET meant == MeantAll(format, values) IN
    IF meant.ok
    THEN packet.got = "bytes" /\ (meant.below => AsWritten(meant.vals))
    ELSE packet = Raised

\* The same of every remainder, which does not hold: the builder looks at the sum
\* only, and 0 and 7 by 3 are read as 2 and 1.
ReadAsWritten ==
  packet.got = "bytes" => AsWritten(MeantAll(format, values).vals)
=============================================================================
