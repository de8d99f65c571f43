CONSTANTS
  Widget = Widget
  Gadget = Gadget
  IntSer = IntSer
  ArraySer = ArraySer
  Count = Count
  Items = Items
  Id = Id
  Note = Note
  Tag = Tag
  ElemTag = ElemTag
  AppendTag = AppendTag
  NoAttr = NoAttr
  BadVersion = BadVersion
  NULL = NULL
  Classes = {Widget, Gadget}
  Scalars = {IntSer}
  Containers = {ArraySer}
  FieldsOf <- MCFieldsOf
  Discard = {Note}
  Force = {Id}
  NoDefault = {Tag}
  Compact = {IntSer, ArraySer}
  VetoClasses = {}
  Tags = {ElemTag}
  TypeAttrs = {Widget}
  NameAttrs = {NoAttr}
  VersionAttrs = {3}
  MaxTags = 6
  Originals <- MCOriginals
SPECIFICATION RTSpec
INVARIANT RoundTrip
CHECK_DEADLOCK FALSE
