CONSTANTS
  en = en
  zh = zh
  zhCN = zhCN
  missing = missing
  taken = taken
  Request = {r1, r2}
  Object = {o1, o2}
  Tag = {en, zh, zhCN}
  English = en
  BaseOf <- TheBaseOf
  Code = {missing, taken}
  Table <- TheTable
SPECIFICATION Spec
INVARIANT InClientLanguage
SYMMETRY Symmetry
