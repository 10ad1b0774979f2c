---------------------------- MODULE IPClassifier ----------------------------
(***************************************************************************)
(* IPClassifier (app/security/ip_utils.py).  The text of an address is     *)
(* abstracted to whether it parses and which ranges contain it: those the  *)
(* code lists, and the tests of Python's ipaddress.  Ranges overlap (the   *)
(* address 0.0.0.0 is unspecified and in a special-purpose network), so    *)
(* the order of the tests decides.                                         *)
(***************************************************************************)
EXTENDS Naturals, Sequences

\* _categorize: the first range of this list that has the address gives its category.
Order == <<
  <<"unspecified", "UNSPECIFIED">>, <<"loopback", "LOOPBACK">>, <<"link_local", "LINK_LOCAL">>,
  <<"multicast", "MULTICAST">>, <<"documentation", "DOCUMENTATION">>, <<"special", "SPECIAL_PURPOSE">>,
  <<"rfc1918", "PRIVATE">>, <<"ula", "PRIVATE">>, <<"cgnat", "CGNAT">>, <<"reserved", "RESERVED">>,
  <<"global", "PUBLIC">> >>

Categorize(ranges) ==
  LET hits == {i \in 1..Len(Order) : Order[i][1] \in ranges}
  IN IF hits = {} THEN "RESERVED" ELSE Order[CHOOSE i \in hits : \A j \in hits : i <= j][2]

\* parse_ip, classify_ip: an address is a record of a form and the ranges that have it.
Forms == {"absent", "malformed", "address"}
Classify(a) ==
  CASE a.form = "absent" -> "NONE" [] a.form = "malformed" -> "INVALID" [] OTHER -> Categorize(a.ranges)

IsPublic(a) == Classify(a) = "PUBLIC"
IsPrivate(a) == Classify(a) \in {"PRIVATE", "CGNAT"}
IsInternal(a) ==
  Classify(a) \in {"PRIVATE", "CGNAT", "LOOPBACK", "LINK_LOCAL", "UNSPECIFIED", "DOCUMENTATION",
                   "SPECIAL_PURPOSE", "RESERVED"}

\* sanitize_ip keeps an address that parses and drops any other text.
Absent == [form |-> "absent", ranges |-> {}]
Sanitize(a) == IF a.form = "address" THEN a ELSE Absent
=============================================================================
