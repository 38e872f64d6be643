---------------------------- MODULE MCFlashMain ----------------------------
EXTENDS FlashMain, TLC

TwoBits == {1, 2}
\* Address 1 in the first page of 4 cells, as 0xfed04 is 4 bytes into its page.
TwoBytes == <<{1}, {2}>>
\* Contents that earlier programs left behind.
Used == {[x \in Addresses |-> {1, 2}], [x \in Addresses |-> IF x = 2 THEN {1} ELSE {1, 2}],
         [x \in Addresses |-> {}]}
=============================================================================
