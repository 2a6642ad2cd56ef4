SPECIFICATION TextSpec
CONSTANTS
  h = h
  zero = zero
  a = a
  b = b
  mark = mark
  dot = dot
  dash = dash
  under = under
  slash = slash
  blank = blank
  bang = bang
  MaxLength = 4
  Han = {h, zero}
  HanSymbols = {zero}
  Letters = {a, b}
  Marks = {mark}
  Trailing = {dot, dash, under}
  Space = blank
  Slash = slash
  Others = {bang}
  Texts <- MCTexts
  Documents <- MCDocuments
  Dictionaries <- MCDictionaries
  Lexemes <- MCLexemes
INVARIANT FoundByItsWords
INVARIANT FoundForAReason
INVARIANT SearchableOrRefused
INVARIANT KeysAreExpanded
INVARIANT PhrasesAreFound
CHECK_DEADLOCK FALSE
