SPECIFICATION Spec
CONSTANTS
  Exact <- MCExact
  AnyNested <- MCAnyNested
  DecodeInner <- MCDecodeInner
  InnerToJson <- MCInnerToJson
  JavaInner <- MCJavaInner
  NIL = NIL
  RootRoleID = "root"
  NoCode = ""
  CodeLists <- MCCodeLists
  RoleLists <- MCRoleLists
  Attrs <- MCAttrs
  Extras <- MCExtras
  LoginIds <- MCLoginIds
  TokenValues = {t1, t2}
  MaxCount = 4
  Samples <- MCSamples
INVARIANTS DecisionsFollowSnapshot JavaReadsBack TerminalsSurvive
