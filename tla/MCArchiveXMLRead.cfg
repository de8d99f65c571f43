CONSTANTS
  Widget = Widget
  IntSer = IntSer
  ArraySer = ArraySer
  Unknown = Unknown
  ElemTag = ElemTag
  Count = Count
  Items = Items
  NoAttr = NoAttr
  BadVersion = BadVersion
  NULL = NULL
  Classes = {Widget}
  Scalars = {IntSer}
  Containers = {ArraySer}
  FieldsOf <- MCFieldsOf
  VetoClasses = {Widget}
  Tags = {ElemTag, Widget}
  TypeAttrs = {Widget, IntSer, ArraySer, Unknown, NoAttr}
  NameAttrs = {Count, Items, NoAttr}
  VersionAttrs = {1, 2, 3, NoAttr, BadVersion}
  MaxTags = 4
SPECIFICATION Spec
INVARIANTS TypeOK SerializerBinding RecycledNotInUse DeliveredOnce
PROPERTIES AbortStopsParsing
CHECK_DEADLOCK FALSE
