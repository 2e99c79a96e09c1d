------------------------------ MODULE MCTextField ------------------------------
(* A combining accent of two bytes and an emoji of four bytes and two      *)
(* UTF-16 units; the placeholder is longer than any text.                  *)
EXTENDS TextField

Letter == <<"a">>
Accent == <<"j", "x">>
Emoji == <<"w", "x", "x", "x">>
MCBytes == {"a", "j", "w", "x"}
MCLead == MCBytes \ {"x"}
MCTyped == {<<>>, Accent, Emoji}
MCPlaceholder == Letter \o Accent \o Emoji
MCRange == {<<0, 1>>, <<1, 9>>}
=============================================================================
