-------------------------------- MODULE Registers --------------------------------
(***************************************************************************)
(* Access to the registers of the gateware as the register crate does it   *)
(* (pac.rs): a register is a word, a field some neighbouring bits of it.   *)
(* A field is given by its unit, the value of its lowest bit, and by the   *)
(* number of its values.                                                   *)
(***************************************************************************)
EXTENDS Integers

Field(unit, values) == [unit |-> unit, values |-> values]

(* The field in front of which there is nothing, and one behind another.   *)
First(values) == Field(1, values)
After(field, values) == Field(field.unit * field.values, values)

(* R::field().bits(): shifted down and masked.                             *)
Get(bits, field) == (bits \div field.unit) % field.values

(* W::field().bits(value): the field is cleared, and the lower bits of the *)
(* value put there.                                                        *)
Put(bits, field, value) ==
  bits - (field.unit * Get(bits, field)) + (field.unit * (value % field.values))

(* write() starts with what a reset leaves there, modify() with what is    *)
(* there.                                                                  *)
ResetValue == 0
=============================================================================
