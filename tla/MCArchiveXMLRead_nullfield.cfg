CONSTANTS
  Widget = Widget
  IntSer = IntSer
  ArraySer = ArraySer
  Unknown = Unknown
  ElemTag = ElemTag
  Count = Count
  Items = Items
  NoAttr = NoAttr
  BadVersion = BadVersion
  NULL = NULL
  Classes = {Widget}
  Scalars = {IntSer}
  Containers = {ArraySer}
  FieldsOf <- MCFieldsOf
  VetoClasses = {Widget}
  Tags = {ElemTag}
  TypeAttrs = {Widget, IntSer, ArraySer, Unknown, NoAttr}
  NameAttrs = {Count, Items, NoAttr}
  VersionAttrs = {3}
  MaxTags = 2
SPECIFICATION Spec
INVARIANT NoNullFieldDereference
CHECK_DEADLOCK FALSE
