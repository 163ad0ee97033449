\* Values under every order of reads.
SPECIFICATION Spec
CONSTANTS
  Words <- MCWords
  Texts <- MCTexts
  Doubles <- MCDoubles
  Longs <- MCLongs
  MaxLen = 2
INVARIANTS
  TypeOK
  KeepsWhatItIs
  PrintsBack
